---------------------------- MODULE Spec2Model ----------------------------
(***************************************************************************)
(* Vote-cart batch execution of the INTUITION Founders Collection web app. *)
(*                                                                         *)
(*   - executeRedeems / redeemBlockingForPositions                         *)
(*       (hooks/blockchain/batch/executeRedeems.ts)                        *)
(*   - createTriple (hooks/useIntuition.ts)                                *)
(*   - handleValidateAll (components/vote/MultiFounderCartDropdown.tsx)    *)
(*   - useCurveAvailability (hooks/vote/useCurveAvailability.ts)           *)
(*                                                                         *)
(* An async function is a process whose position is `pc`; one action is    *)
(* the code between two awaits (JavaScript runs it without interruption).  *)
(***************************************************************************)
EXTENDS Integers, Sequences, FiniteSets, TLC

(***************************************************************************)
(* Bounds of the exploration.                                              *)
(***************************************************************************)
NumTriples == 2
MaxItems == 3
MaxShares == 2
\* BATCH_VOTE_CONSTANTS.MAX_BATCH_SIZE, scaled down so that MaxItems
\* positions need more than one redeemBatch call.
MAX_BATCH_SIZE == 2
\* createTriple: amounts in units of 0.0005 TRUST
MaxWei == 4
\* handleValidateAll
NumFounders == 2
MaxCartItems == 2
MaxAmount == 2
\* useCurveAvailability
NumTotems == 2
MaxVoteCartItems == 2
\* calculateTotalTransactions: uninitializedProgressiveAgainstCount
MaxUninitialized == 2
\* chunkBatchArrays: length of the arrays, and maxSize
MaxArrayLen == 3
MaxChunkSize == 3
\* applySlippage: the amounts 0..MaxExpected
MaxExpected == 12
\* BATCH_VOTE_CONSTANTS.TOLERANCE_WEI, scaled to the amounts 0..MaxWei
TOLERANCE_WEI == 2
\* throttleLink: operations handed to the link, and its options in ticks of
\* the model's clock (the defaults are 100 ms, 3, 3 and 1000 ms)
NumOperations == 3
minDelay == 1
maxConcurrent == 3
maxRetries == 2
retryDelay == 1

(***************************************************************************)
(* Program constants.                                                      *)
(***************************************************************************)
CURVE_LINEAR == 1
CURVE_PROGRESSIVE == 2
DEFAULT_SLIPPAGE_BPS == 200
BPS_DENOMINATOR == 10000

Curves == {CURVE_LINEAR, CURVE_PROGRESSIVE}

\* A triple t has a FOR vault (termId) and an AGAINST vault (counterTermId).
TermIds == 1..NumTriples
CounterTermOf(t) == NumTriples + t
VaultIds == 1..(2 * NumTriples)

\* item.currentPosition is optional (ProcessableCartItem).
NoPosition == [direction |-> "none", curveId |-> 0, shares |-> 0]
PositionSnapshots ==
    [direction : {"for", "against"}, curveId : Curves, shares : 1..MaxShares]

\* Items handed to executeRedeems.
RedeemItems ==
    { [termId |-> t, counterTermId |-> CounterTermOf(t), currentPosition |-> p] :
        t \in TermIds, p \in PositionSnapshots \cup {NoPosition} }

\* Items handed to redeemBlockingForPositions (currentPosition is not read).
BlockingItems ==
    { [termId |-> t, counterTermId |-> CounterTermOf(t), currentPosition |-> NoPosition] :
        t \in TermIds }

SeqsUpTo(S, n) == UNION { [1..k -> S] : k \in 0..n }

Min(a, b) == IF a < b THEN a ELSE b

VARIABLES
    flow,            \* which function is running
    pc,              \* its position
    items,           \* params.items
    curveId,         \* params.curveId (redeemBlockingForPositions)
    chainShares,     \* getShares(owner, termId, curveId) on the contract
    i,               \* index of the item the for-of loop is at
    positionsToRedeem,
    redeemTermIds,
    redeemCurveIds,
    redeemShares,
    totalRedeemed,
    minAssets,
    chunks,
    c,               \* index of the chunk the for-of loop is at
    lastTxHash,
    txs,             \* transactions submitted through walletClient
    result,          \* what the call returned
    thrown,          \* the step whose rejection reached the caller
    \* createTriple (useIntuition)
    depositAmountWei,
    walletBalance,
    tripleBaseCost,
    minDeposit,
    deficit,
    costsChecked,        \* did the reads of the cost check resolve
    \* createClaim (useIntuition)
    claimParams,         \* which of params.predicate / params.object is an atom id
    predicateCreated,
    objectCreated,
    existingTriple,      \* what findTriple returned
    claimExistsError,    \* the ClaimExistsError thrown, if any
    createTripleCalls,   \* how often createTriple was called
    \* createThrottleLink (lib/throttleLink.ts)
    queue,               \* the QueuedRequests, by operation
    retryCount,          \* request.retryCount
    activeRequests,
    isProcessing,
    sinceLastRequest,    \* Date.now() - lastRequestTime, up to minDelay
    processTimers,       \* pending setTimeout(processNext, ...): time left
    retryTimers,         \* pending retry setTimeout per request: time left
    forwarding,          \* operations forwarded downstream and not yet settled
    forwards,            \* how often each operation was forwarded
    backoff,             \* the delay of each operation's last retry
    subscribed,          \* operations whose Observable was subscribed
    unsubscribed,        \* operations whose subscriber has unsubscribed
    delivered,           \* what each observer received: complete or error
    gotResult,           \* the observer received a result through next
    \* MultiFounderCartDropdown
    allCarts,            \* founderId -> cart (the multi-founder cart)
    currentFounderId,
    cartsArray,          \* the cartsArray the running handleValidateAll closed over
    validationProgress,
    isBatchLoading,      \* useBatchVote().isLoading
    vpc,                 \* position of handleValidateAll
    vi,                  \* its loop variable i (1-based)
    allSuccessful,
    batchCalls,          \* executeBatch calls of the current run, with their outcome
    inFlight,            \* executeBatch promises not yet settled
    onSuccessCalls,      \* how often the current run called onSuccess
    \* useCurveAvailability: the hook's parameters and the value it returned
    voteDirection,
    hasForPositionLinear,
    hasForPositionProgressive,
    hasAgainstPositionLinear,
    hasAgainstPositionProgressive,
    cart,
    selectedTotemId,
    curveAvailability,
    heldPositions,       \* the positions the panel has read, per totem
    \* one call of a function of batch/utils, or one render of useVaultInitStatus
    fn,                  \* the function called
    args,                \* its arguments
    upc,                 \* "off", "called" or "returned"
    ret,                 \* the value it returned
    multicalls           \* how often the call used publicClient.multicall

redeemVars == << flow, pc, items, curveId, chainShares, i, positionsToRedeem,
                 redeemTermIds, redeemCurveIds, redeemShares, totalRedeemed,
                 minAssets, chunks, c, lastTxHash, txs, result, thrown >>

tripleVars == << depositAmountWei, walletBalance, tripleBaseCost, minDeposit, deficit,
                 costsChecked >>

claimVars == << claimParams, predicateCreated, objectCreated, existingTriple,
                claimExistsError, createTripleCalls >>

validateVars == << allCarts, currentFounderId, cartsArray, validationProgress,
                   isBatchLoading, vpc, vi, allSuccessful, batchCalls, inFlight,
                   onSuccessCalls >>

curveVars == << voteDirection, hasForPositionLinear, hasForPositionProgressive,
                hasAgainstPositionLinear, hasAgainstPositionProgressive, cart,
                selectedTotemId, curveAvailability, heldPositions >>

utilsVars == << fn, args, upc, ret, multicalls >>

throttleVars == << queue, retryCount, activeRequests, isProcessing, sinceLastRequest,
                   processTimers, retryTimers, forwarding, forwards, backoff,
                   subscribed, unsubscribed, delivered, gotResult >>

vars == << redeemVars, tripleVars, validateVars, curveVars, utilsVars, claimVars,
           throttleVars >>

(***************************************************************************)
(* batch/utils                                                             *)
(***************************************************************************)

\* getPositionShares: readContract getShares(userAddress, termId, curveId)
getPositionShares(termId, cid) == chainShares[<<termId, cid>>]

\* applySlippage, but dividing before multiplying
applySlippageDivideFirst(expected, toleranceBps) ==
    (expected \div BPS_DENOMINATOR) * (BPS_DENOMINATOR - toleranceBps)

\* applySlippage(expected, toleranceBps)
applySlippage(expected, toleranceBps) ==
    (expected * (BPS_DENOMINATOR - toleranceBps)) \div BPS_DENOMINATOR

\* What publicClient.multicall gave back: it rejected, or it resolved with one
\* entry per call, { status: 'success', result: [a, b] } or { status: 'failure' }.
NoResult == << >>
RejectedMulticall == [rejected |-> TRUE, results |-> << >>]

\* previewRedeem on the contract is a black box; the stand-in prices a share
\* at BPS_DENOMINATOR wei so that slippage is visible on every amount.
PricedMulticall(sharesArr, transportOk) ==
    IF transportOk
    THEN [rejected |-> FALSE,
          results |-> [k \in 1..Len(sharesArr) |->
                         [status |-> "success",
                          result |-> << sharesArr[k] * BPS_DENOMINATOR,
                                        sharesArr[k] * BPS_DENOMINATOR >>]]]
    ELSE RejectedMulticall

\* an empty input returns at once, without a multicall
MulticallsIssued(n) == IF n = 0 THEN 0 ELSE 1

\* FallbackPreview, but nothing is returned for the batch
FallbackEmpty(n) == << >>

\* the multicall rejected: a vector of zeros of the input's length
FallbackPreview(n) == [k \in 1..n |-> 0]

\* the preview of one entry: the first component of its result, 0 on failure
PreviewOf(entry) == IF entry.status = "success" THEN entry.result[1] ELSE 0

previewBatch(n, multicall) ==
    IF n = 0 THEN << >>
    ELSE IF multicall.rejected THEN FallbackPreview(n)
    ELSE [k \in 1..n |-> PreviewOf(multicall.results[k])]

previewDepositBatch(amounts, multicall) == previewBatch(Len(amounts), multicall)

previewRedeemBatch(sharesArr, multicall) == previewBatch(Len(sharesArr), multicall)

\* calculateMinSharesBatch, but the preview itself is the minimum
calculateMinSharesBatchNoSlippage(amounts, multicall) ==
    previewDepositBatch(amounts, multicall)

\* calculateMinSharesBatch = previewDepositBatch, then applySlippage per element
calculateMinSharesBatch(amounts, multicall) ==
    [k \in 1..Len(amounts) |->
        applySlippage(previewDepositBatch(amounts, multicall)[k], DEFAULT_SLIPPAGE_BPS)]

\* calculateMinAssetsBatch = previewRedeemBatch, then applySlippage per element
calculateMinAssetsBatch(sharesArr, multicall) ==
    [k \in 1..Len(sharesArr) |->
        applySlippage(previewRedeemBatch(sharesArr, multicall)[k], DEFAULT_SLIPPAGE_BPS)]

\* NumChunks, but one more chunk than full ones, whatever is left
NumChunksPlusOne(n, size) == (n \div size) + 1

\* the number of slices of `size` elements that cover n elements
NumChunks(n, size) == (n + size - 1) \div size

\* chunkBatchArrays(termIds, curveIds, values, minValues, maxSize)
chunkBatchArrays(termIds, curveIds, values, minValues, maxSize) ==
    [j \in 1..NumChunks(Len(termIds), maxSize) |->
        LET lo == (j - 1) * maxSize + 1
            hi == Min(j * maxSize, Len(termIds))
        IN  [termIds   |-> SubSeq(termIds, lo, hi),
             curveIds  |-> SubSeq(curveIds, lo, hi),
             values    |-> SubSeq(values, lo, hi),
             minValues |-> SubSeq(minValues, lo, hi)]]

(***************************************************************************)
(* executeRedeems                                                          *)
(***************************************************************************)

\* the vault a cart item's current position lives in
RedeemTermId(item) ==
    IF item.currentPosition.direction = "for" THEN item.termId ELSE item.counterTermId

\* NoSharesToRedeem, but a zero balance is not skipped
NeverSkipped(actualShares) == actualShares < 0

\* `if (actualShares <= 0n) continue`
NoSharesToRedeem(actualShares) == actualShares <= 0

\* SharesToRedeem, but the amount is the cart's snapshot
SharesFromCart(item, actualShares) == item.currentPosition.shares

\* `redeemShares.push(actualShares)`
SharesToRedeem(item, actualShares) == actualShares

\* the positions a call can read; every other balance is left at zero
ReadSet(its, fl, cid) ==
    IF fl = "executeRedeems"
    THEN { <<RedeemTermId(its[k]), its[k].currentPosition.curveId>> :
             k \in { n \in 1..Len(its) : its[n].currentPosition # NoPosition } }
    ELSE { <<its[k].termId, cid>> : k \in 1..Len(its) }

Positions == VaultIds \X Curves

InitRedeemLocals ==
    /\ i = 1
    /\ positionsToRedeem = << >>
    /\ redeemTermIds = << >>
    /\ redeemCurveIds = << >>
    /\ redeemShares = << >>
    /\ totalRedeemed = 0
    /\ minAssets = << >>
    /\ chunks = << >>
    /\ c = 1
    /\ lastTxHash = 0
    /\ txs = << >>
    /\ result = "pending"
    /\ thrown = "none"

InitChain(its, fl, cid) ==
    \E bal \in [ReadSet(its, fl, cid) -> 0..MaxShares] :
        chainShares = [p \in Positions |->
                          IF p \in ReadSet(its, fl, cid) THEN bal[p] ELSE 0]

InitExecuteRedeems ==
    /\ flow = "executeRedeems"
    /\ pc = "readShares"
    /\ items \in SeqsUpTo(RedeemItems, MaxItems)
    /\ curveId = 0
    /\ InitChain(items, flow, curveId)
    /\ InitRedeemLocals

InitRedeemBlocking ==
    /\ flow = "redeemBlockingForPositions"
    /\ pc = "readShares"
    /\ items \in SeqsUpTo(BlockingItems, MaxItems)
    /\ curveId \in Curves
    /\ InitChain(items, flow, curveId)
    /\ InitRedeemLocals

\* a call that throws: the rejection reaches the caller, the locals are gone
Throw(step) ==
    /\ pc' = "done"
    /\ result' = "error"
    /\ thrown' = step

\* `if (!item.currentPosition) continue`
SkipNoPosition ==
    /\ flow = "executeRedeems"
    /\ pc = "readShares"
    /\ i <= Len(items)
    /\ items[i].currentPosition = NoPosition
    /\ i' = i + 1
    /\ UNCHANGED << flow, pc, items, curveId, chainShares, positionsToRedeem,
                    redeemTermIds, redeemCurveIds, redeemShares, totalRedeemed,
                    minAssets, chunks, c, lastTxHash, txs, result, thrown >>

\* `actualShares = await getPositionShares(...)` resolves, rest of the loop body
ReadActualShares ==
    /\ flow = "executeRedeems"
    /\ pc = "readShares"
    /\ i <= Len(items)
    /\ items[i].currentPosition # NoPosition
    /\ LET item == items[i]
           redeemTermId == RedeemTermId(item)
           cid == item.currentPosition.curveId
           actualShares == getPositionShares(redeemTermId, cid)
       IN  IF NoSharesToRedeem(actualShares)
           THEN UNCHANGED << redeemTermIds, redeemCurveIds, redeemShares, totalRedeemed >>
           ELSE /\ redeemTermIds' = Append(redeemTermIds, redeemTermId)
                /\ redeemCurveIds' = Append(redeemCurveIds, cid)
                /\ redeemShares' = Append(redeemShares, SharesToRedeem(item, actualShares))
                /\ totalRedeemed' = totalRedeemed + SharesToRedeem(item, actualShares)
    /\ i' = i + 1
    /\ UNCHANGED << flow, pc, items, curveId, chainShares, positionsToRedeem,
                    minAssets, chunks, c, lastTxHash, txs, result, thrown >>

\* getPositionShares rejects (RPC error)
ReadSharesFails ==
    /\ flow \in {"executeRedeems", "redeemBlockingForPositions"}
    /\ pc = "readShares"
    /\ i <= Len(items)
    /\ flow = "executeRedeems" => items[i].currentPosition # NoPosition
    /\ Throw("getShares")
    /\ UNCHANGED << flow, items, curveId, chainShares, i, positionsToRedeem,
                    redeemTermIds, redeemCurveIds, redeemShares, totalRedeemed,
                    minAssets, chunks, c, lastTxHash, txs >>

\* `if (redeemTermIds.length === 0) return null`
ReturnNull ==
    /\ flow = "executeRedeems"
    /\ pc = "readShares"
    /\ i > Len(items)
    /\ redeemTermIds = << >>
    /\ pc' = "done"
    /\ result' = "null"
    /\ UNCHANGED << flow, items, curveId, chainShares, i, positionsToRedeem,
                    redeemTermIds, redeemCurveIds, redeemShares, totalRedeemed,
                    minAssets, chunks, c, lastTxHash, txs, thrown >>

\* `minAssets = await calculateMinAssetsBatch(...)`, `chunks = chunkBatchArrays(...)`
ComputeMinAssets ==
    /\ flow = "executeRedeems"
    /\ pc = "readShares"
    /\ i > Len(items)
    /\ redeemTermIds # << >>
    /\ \E transportOk \in BOOLEAN :
         /\ minAssets' = calculateMinAssetsBatch(
                             redeemShares, PricedMulticall(redeemShares, transportOk))
         /\ chunks' = chunkBatchArrays(redeemTermIds, redeemCurveIds, redeemShares,
                                       minAssets', MAX_BATCH_SIZE)
    /\ c' = 1
    /\ pc' = "simulate"
    /\ UNCHANGED << flow, items, curveId, chainShares, i, positionsToRedeem,
                    redeemTermIds, redeemCurveIds, redeemShares, totalRedeemed,
                    lastTxHash, txs, result, thrown >>

(***************************************************************************)
(* redeemBlockingForPositions                                              *)
(***************************************************************************)

\* BlockingTermId, but the AGAINST vault is read and redeemed
BlockingCounterTermId(item) == item.counterTermId

\* the vault read and redeemed for an item: `item.termId` (the FOR vault)
BlockingTermId(item) == item.termId

\* `forShares = await getPositionShares(..., item.termId, curveId)` resolves
ReadForShares ==
    /\ flow = "redeemBlockingForPositions"
    /\ pc = "readShares"
    /\ i <= Len(items)
    /\ LET item == items[i]
           forShares == getPositionShares(BlockingTermId(item), curveId)
       IN  positionsToRedeem' =
               IF forShares > 0
               THEN Append(positionsToRedeem,
                           [termId |-> BlockingTermId(item), shares |-> forShares])
               ELSE positionsToRedeem
    /\ i' = i + 1
    /\ UNCHANGED << flow, pc, items, curveId, chainShares, redeemTermIds,
                    redeemCurveIds, redeemShares, totalRedeemed, minAssets,
                    chunks, c, lastTxHash, txs, result, thrown >>

\* `if (positionsToRedeem.length === 0) return null`
BlockingReturnNull ==
    /\ flow = "redeemBlockingForPositions"
    /\ pc = "readShares"
    /\ i > Len(items)
    /\ positionsToRedeem = << >>
    /\ pc' = "done"
    /\ result' = "null"
    /\ UNCHANGED << flow, items, curveId, chainShares, i, positionsToRedeem,
                    redeemTermIds, redeemCurveIds, redeemShares, totalRedeemed,
                    minAssets, chunks, c, lastTxHash, txs, thrown >>

\* the three .map() calls, calculateMinAssetsBatch and chunkBatchArrays
BlockingComputeMinAssets ==
    /\ flow = "redeemBlockingForPositions"
    /\ pc = "readShares"
    /\ i > Len(items)
    /\ positionsToRedeem # << >>
    /\ redeemTermIds' = [k \in 1..Len(positionsToRedeem) |-> positionsToRedeem[k].termId]
    /\ redeemCurveIds' = [k \in 1..Len(positionsToRedeem) |-> curveId]
    /\ redeemShares' = [k \in 1..Len(positionsToRedeem) |-> positionsToRedeem[k].shares]
    /\ \E transportOk \in BOOLEAN :
         /\ minAssets' = calculateMinAssetsBatch(
                             redeemShares', PricedMulticall(redeemShares', transportOk))
         /\ chunks' = chunkBatchArrays(redeemTermIds', redeemCurveIds', redeemShares',
                                       minAssets', MAX_BATCH_SIZE)
    /\ c' = 1
    /\ pc' = "simulate"
    /\ UNCHANGED << flow, items, curveId, chainShares, i, positionsToRedeem,
                    totalRedeemed, lastTxHash, txs, result, thrown >>

(***************************************************************************)
(* `for (const chunk of chunks)`: simulate, write, wait for the receipt.   *)
(* The loop is the same text in both functions.                            *)
(***************************************************************************)
InChunkLoop == flow \in {"executeRedeems", "redeemBlockingForPositions"}

\* `await publicClient.simulateContract(redeemBatch, chunk)` resolves
SimulateRedeemBatch ==
    /\ InChunkLoop
    /\ pc = "simulate"
    /\ c <= Len(chunks)
    /\ pc' = "write"
    /\ UNCHANGED << flow, items, curveId, chainShares, i, positionsToRedeem,
                    redeemTermIds, redeemCurveIds, redeemShares, totalRedeemed,
                    minAssets, chunks, c, lastTxHash, txs, result, thrown >>

\* WriteRedeemBatch, but the receipt is not awaited
WriteRedeemBatchNoWait ==
    /\ InChunkLoop
    /\ pc = "write"
    /\ txs' = Append(txs, [functionName |-> "redeemBatch",
                           termIds |-> chunks[c].termIds,
                           curveIds |-> chunks[c].curveIds,
                           values |-> chunks[c].values,
                           minValues |-> chunks[c].minValues,
                           confirmed |-> FALSE])
    /\ lastTxHash' = Len(txs')
    /\ c' = c + 1
    /\ pc' = "simulate"
    /\ UNCHANGED << flow, items, curveId, chainShares, i, positionsToRedeem,
                    redeemTermIds, redeemCurveIds, redeemShares, totalRedeemed,
                    minAssets, chunks, result, thrown >>

\* `lastTxHash = await walletClient.writeContract(request)` resolves;
\* the next await is waitForTransactionReceipt
WriteRedeemBatch ==
    /\ InChunkLoop
    /\ pc = "write"
    /\ txs' = Append(txs, [functionName |-> "redeemBatch",
                           termIds |-> chunks[c].termIds,
                           curveIds |-> chunks[c].curveIds,
                           values |-> chunks[c].values,
                           minValues |-> chunks[c].minValues,
                           confirmed |-> FALSE])
    /\ lastTxHash' = Len(txs')
    /\ pc' = "wait"
    /\ UNCHANGED << flow, items, curveId, chainShares, i, positionsToRedeem,
                    redeemTermIds, redeemCurveIds, redeemShares, totalRedeemed,
                    minAssets, chunks, c, result, thrown >>

\* `await publicClient.waitForTransactionReceipt({ hash: lastTxHash })` resolves
RedeemReceipt ==
    /\ InChunkLoop
    /\ pc = "wait"
    /\ txs' = [txs EXCEPT ![lastTxHash].confirmed = TRUE]
    /\ c' = c + 1
    /\ pc' = "simulate"
    /\ UNCHANGED << flow, items, curveId, chainShares, i, positionsToRedeem,
                    redeemTermIds, redeemCurveIds, redeemShares, totalRedeemed,
                    minAssets, chunks, lastTxHash, result, thrown >>

\* ChunkStepFails, but the rejection is swallowed and the loop goes on
ChunkStepFailsAndContinues ==
    /\ InChunkLoop
    /\ pc \in {"simulate", "write", "wait"}
    /\ c <= Len(chunks)
    /\ thrown' = pc
    /\ c' = c + 1
    /\ pc' = "simulate"
    /\ UNCHANGED << flow, items, curveId, chainShares, i, positionsToRedeem,
                    redeemTermIds, redeemCurveIds, redeemShares, totalRedeemed,
                    minAssets, chunks, lastTxHash, txs, result >>

\* one of the three awaits of the loop body rejects: nothing catches it
ChunkStepFails ==
    /\ InChunkLoop
    /\ pc \in {"simulate", "write", "wait"}
    /\ c <= Len(chunks)
    /\ Throw(pc)
    /\ UNCHANGED << flow, items, curveId, chainShares, i, positionsToRedeem,
                    redeemTermIds, redeemCurveIds, redeemShares, totalRedeemed,
                    minAssets, chunks, c, lastTxHash, txs >>

\* `return { txHash: lastTxHash, totalRedeemed }` / `return lastTxHash`
ReturnTxHash ==
    /\ InChunkLoop
    /\ pc = "simulate"
    /\ c > Len(chunks)
    /\ pc' = "done"
    /\ result' = "ok"
    /\ UNCHANGED << flow, items, curveId, chainShares, i, positionsToRedeem,
                    redeemTermIds, redeemCurveIds, redeemShares, totalRedeemed,
                    minAssets, chunks, c, lastTxHash, txs, thrown >>

redeemLocals == << items, curveId, chainShares, i, positionsToRedeem, redeemTermIds,
                   redeemCurveIds, redeemShares, totalRedeemed, minAssets, chunks, c >>

RedeemSteps ==
    \/ SkipNoPosition
    \/ ReadActualShares
    \/ ReadForShares
    \/ ReadSharesFails
    \/ ReturnNull
    \/ BlockingReturnNull
    \/ ComputeMinAssets
    \/ BlockingComputeMinAssets
    \/ SimulateRedeemBatch
    \/ WriteRedeemBatch
    \/ RedeemReceipt
    \/ ChunkStepFails
    \/ ReturnTxHash

(***************************************************************************)
(* createTriple (useIntuition)                                             *)
(***************************************************************************)

\* the try block: multiCallIntuitionConfigs or getBalance rejects; the catch
\* only rethrows the two messages thrown below, so the call goes on
CheckCostsUnavailable ==
    /\ flow = "createTriple"
    /\ pc = "checkCosts"
    /\ pc' = "readConfig"
    /\ costsChecked' = "unavailable"
    /\ UNCHANGED << flow, lastTxHash, txs, result, thrown, redeemLocals,
                    depositAmountWei, walletBalance, tripleBaseCost, minDeposit,
                    deficit >>

\* BalanceTooLow, but a balance equal to the base cost alone is accepted
BalanceBelowBaseCost(balance, totalRequired) == balance < totalRequired - 1

\* `walletBalance < totalRequired`
BalanceTooLow(balance, totalRequired) == balance < totalRequired

\* the try block with both reads resolved
CheckCosts ==
    /\ flow = "createTriple"
    /\ pc = "checkCosts"
    /\ costsChecked' = "checked"
    /\ LET totalRequired == tripleBaseCost + depositAmountWei
       IN  IF depositAmountWei < minDeposit
           THEN /\ Throw("Depot trop faible")
                /\ UNCHANGED deficit
           ELSE IF BalanceTooLow(walletBalance, totalRequired)
           THEN /\ Throw("Balance insuffisante")
                /\ deficit' = totalRequired - walletBalance
           ELSE /\ pc' = "readConfig"
                /\ UNCHANGED << result, thrown, deficit >>
    /\ UNCHANGED << flow, lastTxHash, txs, redeemLocals, depositAmountWei,
                    walletBalance, tripleBaseCost, minDeposit >>

\* the second `await multiCallIntuitionConfigs(...)` resolves
ReadTripleConfig ==
    /\ flow = "createTriple"
    /\ pc = "readConfig"
    /\ pc' = "simulate"
    /\ UNCHANGED << flow, lastTxHash, txs, result, thrown, redeemLocals, tripleVars >>

ReadTripleConfigFails ==
    /\ flow = "createTriple"
    /\ pc = "readConfig"
    /\ Throw("multicall")
    /\ UNCHANGED << flow, lastTxHash, txs, redeemLocals, tripleVars >>

\* `await publicClient.simulateContract(createTriples, ...)` resolves
SimulateCreateTriples ==
    /\ flow = "createTriple"
    /\ pc = "simulate"
    /\ pc' = "write"
    /\ UNCHANGED << flow, lastTxHash, txs, result, thrown, redeemLocals, tripleVars >>

\* `txHash = await walletClient.writeContract(request)` resolves
WriteCreateTriples ==
    /\ flow = "createTriple"
    /\ pc = "write"
    /\ txs' = Append(txs, [functionName |-> "createTriples",
                           termIds |-> << >>,
                           curveIds |-> << >>,
                           values |-> << tripleBaseCost + depositAmountWei >>,
                           minValues |-> << >>,
                           confirmed |-> FALSE])
    /\ lastTxHash' = Len(txs')
    /\ pc' = "wait"
    /\ UNCHANGED << flow, result, thrown, redeemLocals, tripleVars >>

\* `await publicClient.waitForTransactionReceipt({ hash: txHash })` resolves
CreateTriplesReceipt ==
    /\ flow = "createTriple"
    /\ pc = "wait"
    /\ txs' = [txs EXCEPT ![lastTxHash].confirmed = TRUE]
    /\ pc' = "done"
    /\ result' = "ok"
    /\ UNCHANGED << flow, lastTxHash, thrown, redeemLocals, tripleVars >>

CreateTripleStepFails ==
    /\ flow = "createTriple"
    /\ pc \in {"simulate", "write", "wait"}
    /\ Throw(pc)
    /\ UNCHANGED << flow, lastTxHash, txs, redeemLocals, tripleVars >>

CreateTripleSteps ==
    \/ CheckCostsUnavailable
    \/ CheckCosts
    \/ ReadTripleConfig
    \/ ReadTripleConfigFails
    \/ SimulateCreateTriples
    \/ WriteCreateTriples
    \/ CreateTriplesReceipt
    \/ CreateTripleStepFails

(***************************************************************************)
(* createClaim (useIntuition)                                              *)
(***************************************************************************)
NoClaimParams == [predicateIsAtomId |-> TRUE, objectIsAtomId |-> TRUE]
NoTriple == [termId |-> "null", subjectLabel |-> "", predicateLabel |-> "",
             objectLabel |-> ""]
NoClaimError == [name |-> "none", termId |-> "null", subjectLabel |-> "",
                 predicateLabel |-> "", objectLabel |-> ""]

\* what findTriple can return for a triple that exists
ExistingTriples ==
    [termId : {"0xt1", "0xt2"}, subjectLabel : {"founder"},
     predicateLabel : {"has value", "has tag"}, objectLabel : {"totem"}]

\* new ClaimExistsError(data)
ClaimExistsError(data) ==
    [name |-> "ClaimExistsError", termId |-> data.termId,
     subjectLabel |-> data.subjectLabel, predicateLabel |-> data.predicateLabel,
     objectLabel |-> data.objectLabel]

\* getOrCreateAtom: the label was found, an atom was created, or createAtom threw
AtomOutcomes == {"found", "created", "throw"}

\* the predicate: an atom id is used as it is, a label goes through getOrCreateAtom
GetOrCreatePredicate(outcome) ==
    /\ flow = "createClaim"
    /\ pc = "getPredicate"
    /\ IF claimParams.predicateIsAtomId
       THEN /\ outcome = "found"
            /\ pc' = "getObject"
            /\ UNCHANGED << predicateCreated, result, thrown >>
       ELSE IF outcome = "throw"
       THEN /\ Throw("createAtom")
            /\ UNCHANGED predicateCreated
       ELSE /\ predicateCreated' = (outcome = "created")
            /\ pc' = "getObject"
            /\ UNCHANGED << result, thrown >>
    /\ UNCHANGED << flow, lastTxHash, txs, redeemLocals, tripleVars, claimParams,
                    objectCreated, existingTriple, claimExistsError,
                    createTripleCalls >>

\* the object, in the same way
GetOrCreateObject(outcome) ==
    /\ flow = "createClaim"
    /\ pc = "getObject"
    /\ IF claimParams.objectIsAtomId
       THEN /\ outcome = "found"
            /\ pc' = "findTriple"
            /\ UNCHANGED << objectCreated, result, thrown >>
       ELSE IF outcome = "throw"
       THEN /\ Throw("createAtom")
            /\ UNCHANGED objectCreated
       ELSE /\ objectCreated' = (outcome = "created")
            /\ pc' = "findTriple"
            /\ UNCHANGED << result, thrown >>
    /\ UNCHANGED << flow, lastTxHash, txs, redeemLocals, tripleVars, claimParams,
                    predicateCreated, existingTriple, claimExistsError,
                    createTripleCalls >>

\* TripleFound, but the lookup's answer is ignored
TripleNeverFound(triple) == FALSE

\* `if (existingTriple)`
TripleFound(triple) == triple # NoTriple

\* `await findTriple(...)` resolves (with null when the query failed): the
\* claim exists and ClaimExistsError is thrown, or createTriple is called
FindTripleResolves(found) ==
    /\ flow = "createClaim"
    /\ pc = "findTriple"
    /\ existingTriple' = found
    /\ IF TripleFound(found)
       THEN /\ claimExistsError' = ClaimExistsError(found)
            /\ Throw("ClaimExistsError")
            /\ UNCHANGED << flow, createTripleCalls >>
       ELSE /\ createTripleCalls' = createTripleCalls + 1
            /\ flow' = "createTriple"
            /\ pc' = "checkCosts"
            /\ UNCHANGED << claimExistsError, result, thrown >>
    /\ UNCHANGED << lastTxHash, txs, redeemLocals, tripleVars, claimParams,
                    predicateCreated, objectCreated >>

CreateClaimSteps ==
    \/ \E outcome \in AtomOutcomes : GetOrCreatePredicate(outcome)
    \/ \E outcome \in AtomOutcomes : GetOrCreateObject(outcome)
    \/ \E found \in ExistingTriples \cup {NoTriple} : FindTripleResolves(found)

(***************************************************************************)
(* createThrottleLink (lib/throttleLink.ts)                                *)
(*                                                                         *)
(* The closure's state is queue, activeRequests, lastRequestTime and       *)
(* isProcessing. Every callback (a subscription, a handler of the          *)
(* forwarded request, a timer) runs to its end without interruption and is *)
(* one action. Time passes in ticks; a timer fires at or after its delay.  *)
(* The forwarded request is taken to settle asynchronously.                *)
(***************************************************************************)
Operations == 1..NumOperations
NoTimer == -1

RECURSIVE Pow2(_)
Pow2(n) == IF n = 0 THEN 1 ELSE 2 * Pow2(n - 1)

\* the closure's variables and the forwarded requests, as one record
Link ==
    [queue |-> queue, activeRequests |-> activeRequests,
     isProcessing |-> isProcessing, sinceLastRequest |-> sinceLastRequest,
     processTimers |-> processTimers, forwarding |-> forwarding,
     forwards |-> forwards]

\* the variables take the values of the record
LinkBecomes(link) ==
    /\ queue' = link.queue
    /\ activeRequests' = link.activeRequests
    /\ isProcessing' = link.isProcessing
    /\ sinceLastRequest' = link.sinceLastRequest
    /\ processTimers' = link.processTimers
    /\ forwarding' = link.forwarding
    /\ forwards' = link.forwards

\* processNext: stop, wait for minDelay, or forward the head of the queue.
\* It returns after one request; it does not call itself again.
processNext(link) ==
    IF link.queue = << >> \/ link.activeRequests >= maxConcurrent
    THEN [link EXCEPT !.isProcessing = FALSE]
    ELSE IF link.sinceLastRequest < minDelay
    THEN [link EXCEPT !.processTimers = Append(@, minDelay - link.sinceLastRequest)]
    ELSE LET request == Head(link.queue)
         IN  [link EXCEPT !.queue = Tail(@),
                          !.activeRequests = @ + 1,
                          !.sinceLastRequest = 0,
                          !.forwarding = @ \cup {request},
                          !.forwards[request] = @ + 1]

\* processQueue: `if (isProcessing) return; isProcessing = true; processNext()`
processQueue(link) ==
    IF link.isProcessing THEN link
    ELSE processNext([link EXCEPT !.isProcessing = TRUE])

\* the Observable of an operation is subscribed: queue.push, processQueue
Subscribe(op) ==
    /\ op \notin subscribed
    /\ subscribed' = subscribed \cup {op}
    /\ LinkBecomes(processQueue([Link EXCEPT !.queue = Append(@, op)]))
    /\ UNCHANGED << retryCount, retryTimers, backoff, unsubscribed, delivered,
                    gotResult >>

\* the cleanup of the Observable: the request leaves the queue if it is there
Unsubscribe(op) ==
    /\ op \in subscribed
    /\ op \notin unsubscribed
    /\ delivered[op] = "none"
    /\ unsubscribed' = unsubscribed \cup {op}
    /\ queue' = SelectSeq(queue, LAMBDA r : r # op)
    /\ UNCHANGED << retryCount, activeRequests, isProcessing, sinceLastRequest,
                    processTimers, retryTimers, forwarding, forwards, backoff,
                    subscribed, delivered, gotResult >>

\* the observer of an operation receives `what`, unless it has unsubscribed
Deliver(op, what) ==
    IF op \in unsubscribed THEN delivered ELSE [delivered EXCEPT ![op] = what]

\* the `next` handler: the result is passed on
ForwardNext(op) ==
    /\ op \in forwarding
    /\ ~gotResult[op]
    /\ gotResult' = [gotResult EXCEPT ![op] = TRUE]
    /\ UNCHANGED << queue, retryCount, activeRequests, isProcessing,
                    sinceLastRequest, processTimers, retryTimers, forwarding,
                    forwards, backoff, subscribed, unsubscribed, delivered >>

\* ActiveAfterSettle, but the request stays counted
ActiveNotReleased(active) == active

\* `activeRequests--` of the error and complete handlers
ActiveAfterSettle(active) == active - 1

\* the `complete` handler
ForwardComplete(op) ==
    /\ op \in forwarding
    /\ delivered' = Deliver(op, "complete")
    /\ LinkBecomes(processNext(
           [Link EXCEPT !.activeRequests = ActiveAfterSettle(@),
                        !.forwarding = @ \ {op}]))
    /\ UNCHANGED << retryCount, retryTimers, backoff, subscribed, unsubscribed,
                    gotResult >>

\* RetryDelay, but the exponent is the count after the increment
RetryDelayAfterIncrement(count) == retryDelay * Pow2(count + 1)

\* `retryDelay * Math.pow(2, request.retryCount)`, before `retryCount++`
RetryDelay(count) == retryDelay * Pow2(count)

\* `is429 && request.retryCount < maxRetries`
MayRetry(is429, count) == is429 /\ count < maxRetries

\* the `error` handler; is429 is what the tests on the error's status code
\* and message give (rate limit or network error)
ForwardError(op, is429) ==
    /\ op \in forwarding
    /\ IF MayRetry(is429, retryCount[op])
       THEN /\ backoff' = [backoff EXCEPT ![op] = RetryDelay(retryCount[op])]
            /\ retryCount' = [retryCount EXCEPT ![op] = @ + 1]
            /\ retryTimers' = [retryTimers EXCEPT ![op] = RetryDelay(retryCount[op])]
            /\ UNCHANGED delivered
       ELSE /\ delivered' = Deliver(op, IF is429 THEN "rate limit error" ELSE "other error")
            /\ UNCHANGED << backoff, retryCount, retryTimers >>
    /\ LinkBecomes(processNext(
           [Link EXCEPT !.activeRequests = ActiveAfterSettle(@),
                        !.forwarding = @ \ {op}]))
    /\ UNCHANGED << subscribed, unsubscribed, gotResult >>

\* RequeueAtFront, but the retried request is dropped
RequeueLost(requests, op) == requests

\* `queue.unshift(request)`
RequeueAtFront(requests, op) == << op >> \o requests

\* the retry timer of a request fires: queue.unshift, processQueue
RetryTimerFires(op) ==
    /\ retryTimers[op] = 0
    /\ retryTimers' = [retryTimers EXCEPT ![op] = NoTimer]
    /\ LinkBecomes(processQueue([Link EXCEPT !.queue = RequeueAtFront(@, op)]))
    /\ UNCHANGED << retryCount, backoff, subscribed, unsubscribed, delivered,
                    gotResult >>

\* a sequence without its k-th element
WithoutIndex(seq, k) == SubSeq(seq, 1, k - 1) \o SubSeq(seq, k + 1, Len(seq))

\* a `setTimeout(processNext, ...)` fires
ProcessTimerFires(k) ==
    /\ k \in 1..Len(processTimers)
    /\ processTimers[k] = 0
    /\ LinkBecomes(processNext([Link EXCEPT !.processTimers = WithoutIndex(@, k)]))
    /\ UNCHANGED << retryCount, retryTimers, backoff, subscribed, unsubscribed,
                    delivered, gotResult >>

\* one tick of the clock passes
Tick ==
    /\ sinceLastRequest' = Min(sinceLastRequest + 1, minDelay)
    /\ processTimers' = [k \in 1..Len(processTimers) |->
                           IF processTimers[k] > 0 THEN processTimers[k] - 1 ELSE 0]
    /\ retryTimers' = [op \in Operations |->
                         IF retryTimers[op] > 0 THEN retryTimers[op] - 1
                         ELSE retryTimers[op]]
    /\ UNCHANGED << queue, retryCount, activeRequests, isProcessing, forwarding,
                    forwards, backoff, subscribed, unsubscribed, delivered,
                    gotResult >>

\* the link is created: lastRequestTime = 0 lies far in the past
InitThrottleLink ==
    /\ queue = << >>
    /\ retryCount = [op \in Operations |-> 0]
    /\ activeRequests = 0
    /\ isProcessing = FALSE
    /\ sinceLastRequest = minDelay
    /\ processTimers = << >>
    /\ retryTimers = [op \in Operations |-> NoTimer]
    /\ forwarding = {}
    /\ forwards = [op \in Operations |-> 0]
    /\ backoff = [op \in Operations |-> 0]
    /\ subscribed = {}
    /\ unsubscribed = {}
    /\ delivered = [op \in Operations |-> "none"]
    /\ gotResult = [op \in Operations |-> FALSE]

(***************************************************************************)
(* MultiFounderCartDropdown: handleValidateAll                             *)
(***************************************************************************)
Founders == 1..NumFounders
NoFounder == 0
NoError == << "undefined", NoFounder >>

CartItemsSet == [id : 1..MaxCartItems, amount : 1..MaxAmount]

\* a cart as the UI built it: item ids unique
InitialCarts ==
    { its \in SeqsUpTo(CartItemsSet, MaxCartItems) :
        \A k \in 1..Len(its) : its[k].id = k }

MultiCarts == UNION { [D -> InitialCarts] : D \in SUBSET Founders }

RECURSIVE CountItems(_, _)
CountItems(carts, D) ==
    IF D = {} THEN 0
    ELSE LET f == CHOOSE g \in D : TRUE
         IN  Len(carts[f]) + CountItems(carts, D \ {f})

\* totalItemCount of the cart context
totalItemCount == CountItems(allCarts, DOMAIN allCarts)

\* currentFounderKey: the key of the current founder's cart, if there is one
currentFounderKey ==
    IF currentFounderId \in DOMAIN allCarts THEN currentFounderId ELSE NoFounder

\* the comparator of entries.sort: current founder first, then by founderName
\* (a founder's name sorts as its id)
SortsBefore(a, b, key) ==
    IF key # NoFounder /\ a = key THEN TRUE
    ELSE IF key # NoFounder /\ b = key THEN FALSE
    ELSE a < b

RECURSIVE SortEntries(_, _, _)
SortEntries(carts, D, key) ==
    IF D = {} THEN << >>
    ELSE LET first == CHOOSE a \in D : \A b \in D \ {a} : SortsBefore(a, b, key)
         IN  << [founderId |-> first, cart |-> carts[first]] >>
                 \o SortEntries(carts, D \ {first}, key)

\* the cartsArray memo
SortedCartsArray == SortEntries(allCarts, DOMAIN allCarts, currentFounderKey)

\* clearFounderCart(founderId) of the cart context
clearFounderCart(carts, f) == [g \in (DOMAIN carts) \ {f} |-> carts[g]]

\* clearCart() of the cart context: the current founder's cart
clearCart(carts) == clearFounderCart(carts, currentFounderId)

\* ValidateDisabled, but the button stays enabled during a run
ValidateAlwaysEnabled == totalItemCount = 0

\* the `disabled` attribute of the validate button
ValidateDisabled ==
    validationProgress.isValidating \/ isBatchLoading \/ totalItemCount = 0

\* ClearsCart, but the cart is cleared whatever the result
ClearsCartAlways(outcome) == TRUE

\* `if (result) { onClearFounder(founderId) ...`
ClearsCart(outcome) == outcome = "ok"

\* the loop goes on to the next founder unless it reached a `break`
LoopContinues(outcome) == outcome = "ok"

IdleProgress ==
    [isValidating |-> FALSE, currentFounderIndex |-> 0, totalFounders |-> 0,
     currentFounderName |-> NoFounder, completedFounders |-> 0, error |-> NoError]

PendingCall(entry) ==
    [founderId |-> entry.founderId, cart |-> entry.cart, outcome |-> "pending"]

\* click on the validate button: handleValidateAll up to `await executeBatch(cart)`
ClickValidate ==
    /\ vpc # "off"
    /\ ~ValidateDisabled
    /\ LET arr == SortedCartsArray
       IN  IF Len(arr) = 0
           THEN UNCHANGED validateVars
           ELSE /\ cartsArray' = arr
                /\ validationProgress' =
                     [isValidating |-> TRUE, currentFounderIndex |-> 0,
                      totalFounders |-> Len(arr),
                      currentFounderName |-> arr[1].founderId,
                      completedFounders |-> 0, error |-> NoError]
                /\ allSuccessful' = TRUE
                /\ vi' = 1
                /\ batchCalls' = << PendingCall(arr[1]) >>
                /\ inFlight' = inFlight + 1
                /\ isBatchLoading' = TRUE
                /\ onSuccessCalls' = 0
                /\ vpc' = "awaitBatch"
                /\ UNCHANGED << allCarts, currentFounderId >>

\* `await executeBatch(cart)` settles: the rest of the loop body, and either
\* the next iteration up to its await or the code after the loop
BatchSettles(outcome) ==
    /\ vpc = "awaitBatch"
    /\ LET entry == cartsArray[vi]
           carts1 == IF ClearsCart(outcome)
                     THEN clearFounderCart(allCarts, entry.founderId)
                     ELSE allCarts
           vp1 == IF outcome = "ok"
                  THEN [validationProgress EXCEPT !.completedFounders = vi]
                  ELSE IF outcome = "falsy"
                  THEN [validationProgress EXCEPT
                          !.error = << "failedForFounder", entry.founderId >>]
                  ELSE [validationProgress EXCEPT !.error = << "err.message", NoFounder >>]
           settled == [batchCalls EXCEPT ![Len(batchCalls)].outcome = outcome]
       IN  /\ allSuccessful' = (allSuccessful /\ outcome = "ok")
           /\ IF LoopContinues(outcome) /\ vi < Len(cartsArray)
              THEN /\ vi' = vi + 1
                   /\ validationProgress' =
                        [vp1 EXCEPT !.currentFounderIndex = vi,
                                    !.currentFounderName = cartsArray[vi + 1].founderId]
                   /\ batchCalls' = Append(settled, PendingCall(cartsArray[vi + 1]))
                   /\ inFlight' = (inFlight - 1) + 1
                   /\ isBatchLoading' = TRUE
                   /\ allCarts' = carts1
                   /\ UNCHANGED << vpc, onSuccessCalls >>
              ELSE /\ validationProgress' = IdleProgress
                   /\ batchCalls' = settled
                   /\ inFlight' = inFlight - 1
                   /\ isBatchLoading' = FALSE
                   /\ vpc' = "idle"
                   /\ IF allSuccessful'
                      THEN /\ onSuccessCalls' = onSuccessCalls + 1
                           /\ allCarts' = clearCart(carts1)
                      ELSE /\ allCarts' = carts1
                           /\ UNCHANGED onSuccessCalls
                   /\ UNCHANGED vi
    /\ UNCHANGED << currentFounderId, cartsArray >>

\* the clear button of a founder row
UserClearFounder(f) ==
    /\ vpc # "off"
    /\ f \in DOMAIN allCarts
    /\ allCarts' = clearFounderCart(allCarts, f)
    /\ UNCHANGED << currentFounderId, cartsArray, validationProgress, isBatchLoading,
                    vpc, vi, allSuccessful, batchCalls, inFlight, onSuccessCalls >>

\* the remove button of an item row
UserRemoveItem(f, k) ==
    /\ vpc # "off"
    /\ f \in DOMAIN allCarts
    /\ k \in 1..Len(allCarts[f])
    /\ allCarts' = [allCarts EXCEPT ![f] =
                      SubSeq(allCarts[f], 1, k - 1) \o SubSeq(allCarts[f], k + 1, Len(allCarts[f]))]
    /\ UNCHANGED << currentFounderId, cartsArray, validationProgress, isBatchLoading,
                    vpc, vi, allSuccessful, batchCalls, inFlight, onSuccessCalls >>

\* the amount input of an item row
UserUpdateAmount(f, k, amount) ==
    /\ vpc # "off"
    /\ f \in DOMAIN allCarts
    /\ k \in 1..Len(allCarts[f])
    /\ amount # allCarts[f][k].amount
    /\ allCarts' = [allCarts EXCEPT ![f][k].amount = amount]
    /\ UNCHANGED << currentFounderId, cartsArray, validationProgress, isBatchLoading,
                    vpc, vi, allSuccessful, batchCalls, inFlight, onSuccessCalls >>

ValidateSteps ==
    \/ ClickValidate
    \/ \E outcome \in {"ok", "falsy", "throw"} : BatchSettles(outcome)
    \/ \E f \in Founders : UserClearFounder(f)
    \/ \E f \in Founders, k \in 1..MaxCartItems : UserRemoveItem(f, k)
    \/ \E f \in Founders, k \in 1..MaxCartItems, amount \in 1..MaxAmount :
           UserUpdateAmount(f, k, amount)

(***************************************************************************)
(* useCurveAvailability                                                    *)
(***************************************************************************)
Totems == 1..NumTotems
Undefined == 0
\* `cart: VoteCart | null`
NoCart == [isNull |-> TRUE, items |-> << >>]

VoteCartItems == [totemId : Totems, direction : {"for", "against"}, curveId : Curves]
VoteCarts ==
    { [isNull |-> FALSE, items |-> its] : its \in SeqsUpTo(VoteCartItems, MaxVoteCartItems) }

\* `voteDirection === 'for' ? 'support' : voteDirection === 'against' ? 'oppose' : null`
Direction(vd) ==
    IF vd = "for" THEN "support" ELSE IF vd = "against" THEN "oppose" ELSE "null"

\* linearBlockedByPosition, but an opposite position on either curve blocks linear
linearBlockedByPositionAnyCurve(direction, forLin, forProg, againstLin, againstProg) ==
    IF direction = "support" THEN againstLin \/ againstProg ELSE forLin \/ forProg

\* blocking by existing positions
linearBlockedByPosition(direction, forLin, forProg, againstLin, againstProg) ==
    IF direction = "support" THEN againstLin ELSE forLin

progressiveBlockedByPosition(direction, forLin, forProg, againstLin, againstProg) ==
    IF direction = "support" THEN againstProg ELSE forProg

\* cartItemsForTotem, but the cart is not filtered by totem
cartItemsForAnyTotem(crt, totem) == crt.items

\* `cart.items.filter(item => item.totemId === selectedTotemId)`
cartItemsForTotem(crt, totem) == SelectSeq(crt.items, LAMBDA item : item.totemId = totem)

\* isOpposite, but only a support request sees the opposite item
isOppositeOfSupport(direction, item) ==
    direction = "support" /\ item.direction = "against"

isOpposite(direction, item) ==
    \/ direction = "support" /\ item.direction = "against"
    \/ direction = "oppose" /\ item.direction = "for"

\* the for-of loop over cartItemsForTotem: the two flags after the items 1..n
RECURSIVE BlockedByCart(_, _, _)
BlockedByCart(direction, its, n) ==
    IF n = 0
    THEN [linear |-> FALSE, progressive |-> FALSE]
    ELSE LET prev == BlockedByCart(direction, its, n - 1)
             item == its[n]
         IN  IF isOpposite(direction, item)
             THEN [linear |-> IF item.curveId = CURVE_LINEAR THEN TRUE ELSE prev.linear,
                   progressive |-> IF item.curveId = CURVE_PROGRESSIVE
                                   THEN TRUE ELSE prev.progressive]
             ELSE prev

\* allBlocked, but one blocked curve is enough
allBlockedIfAny(linearBlocked, progressiveBlocked) == linearBlocked \/ progressiveBlocked

\* `const allBlocked = linearBlocked && progressiveBlocked`
allBlocked(linearBlocked, progressiveBlocked) == linearBlocked /\ progressiveBlocked

\* the message asked of t(): its key and parameters, or null
BlockedReason(direction, linearBlocked, progressiveBlocked, byCart) ==
    IF ~(linearBlocked \/ progressiveBlocked)
    THEN [key |-> "null", oppositeDirection |-> "", blockedCurves |-> << >>,
          hasCartBlocking |-> FALSE, freeCurve |-> ""]
    ELSE LET blockedCurves ==
                 (IF linearBlocked THEN << "Linear" >> ELSE << >>)
                 \o (IF progressiveBlocked THEN << "Progressive" >> ELSE << >>)
         IN  [key |-> IF allBlocked(linearBlocked, progressiveBlocked)
                      THEN "founderExpanded.blockedBothCurves"
                      ELSE "founderExpanded.blockedSingleCurve",
              oppositeDirection |-> IF direction = "support" THEN "Oppose" ELSE "Support",
              blockedCurves |-> blockedCurves,
              hasCartBlocking |-> byCart.linear \/ byCart.progressive,
              freeCurve |-> IF allBlocked(linearBlocked, progressiveBlocked) THEN ""
                            ELSE IF linearBlocked THEN "Progressive" ELSE "Linear"]

\* the body of the useMemo
useCurveAvailability(vd, forLin, forProg, againstLin, againstProg, crt, totem) ==
    LET direction == Direction(vd)
    IN  IF direction = "null" \/ vd = "withdraw"
        THEN [linear |-> TRUE, progressive |-> TRUE,
              blockedReason |-> BlockedReason(direction, FALSE, FALSE,
                                              [linear |-> FALSE, progressive |-> FALSE]),
              allBlocked |-> FALSE]
        ELSE LET byCart ==
                     IF crt # NoCart /\ totem # Undefined
                     THEN LET its == cartItemsForTotem(crt, totem)
                          IN  BlockedByCart(direction, its, Len(its))
                     ELSE [linear |-> FALSE, progressive |-> FALSE]
                 linearBlocked ==
                     linearBlockedByPosition(direction, forLin, forProg, againstLin, againstProg)
                         \/ byCart.linear
                 progressiveBlocked ==
                     progressiveBlockedByPosition(direction, forLin, forProg, againstLin, againstProg)
                         \/ byCart.progressive
             IN  [linear |-> ~linearBlocked,
                  progressive |-> ~progressiveBlocked,
                  blockedReason |-> BlockedReason(direction, linearBlocked,
                                                  progressiveBlocked, byCart),
                  allBlocked |-> allBlocked(linearBlocked, progressiveBlocked)]

NotRendered ==
    [linear |-> TRUE, progressive |-> TRUE,
     blockedReason |-> [key |-> "not rendered", oppositeDirection |-> "",
                        blockedCurves |-> << >>, hasCartBlocking |-> FALSE,
                        freeCurve |-> ""],
     allBlocked |-> FALSE]

HookMounted == curveAvailability.blockedReason.key # "not rendered"

\* a render: the memo is recomputed from the (new) parameters
Rerender ==
    curveAvailability' =
        useCurveAvailability(voteDirection', hasForPositionLinear',
                             hasForPositionProgressive', hasAgainstPositionLinear',
                             hasAgainstPositionProgressive', cart', selectedTotemId')

VoteDirections == {"for", "against", "withdraw", "null"}

SetVoteDirection(vd) ==
    /\ HookMounted
    /\ vd # voteDirection
    /\ voteDirection' = vd
    /\ UNCHANGED << hasForPositionLinear, hasForPositionProgressive,
                    hasAgainstPositionLinear, hasAgainstPositionProgressive, cart,
                    selectedTotemId >>
    /\ Rerender

\* another totem is selected; the positions read for it come with it
SelectTotem(totem, forLin, forProg, againstLin, againstProg) ==
    /\ HookMounted
    /\ totem # selectedTotemId
    /\ selectedTotemId' = totem
    /\ hasForPositionLinear' = forLin
    /\ hasForPositionProgressive' = forProg
    /\ hasAgainstPositionLinear' = againstLin
    /\ hasAgainstPositionProgressive' = againstProg
    /\ UNCHANGED << voteDirection, cart >>
    /\ Rerender

\* the cart context hands the hook a cart with one more item
CartItemAdded(item) ==
    /\ HookMounted
    /\ cart' = [isNull |-> FALSE, items |-> Append(cart.items, item)]
    /\ Len(cart.items) < MaxVoteCartItems
    /\ UNCHANGED << voteDirection, hasForPositionLinear, hasForPositionProgressive,
                    hasAgainstPositionLinear, hasAgainstPositionProgressive,
                    selectedTotemId >>
    /\ Rerender

\* the cart context hands the hook a cart with one item less
CartItemRemoved(k) ==
    /\ HookMounted
    /\ cart # NoCart
    /\ k \in 1..Len(cart.items)
    /\ cart' = [isNull |-> FALSE,
                items |-> SubSeq(cart.items, 1, k - 1)
                            \o SubSeq(cart.items, k + 1, Len(cart.items))]
    /\ UNCHANGED << voteDirection, hasForPositionLinear, hasForPositionProgressive,
                    hasAgainstPositionLinear, hasAgainstPositionProgressive,
                    selectedTotemId >>
    /\ Rerender

CurveSteps ==
    \/ \E vd \in VoteDirections : SetVoteDirection(vd)
    \/ \E totem \in Totems \cup {Undefined}, forLin \in BOOLEAN, forProg \in BOOLEAN,
          againstLin \in BOOLEAN, againstProg \in BOOLEAN :
           SelectTotem(totem, forLin, forProg, againstLin, againstProg)
    \/ \E item \in VoteCartItems : CartItemAdded(item)
    \/ \E k \in 1..MaxVoteCartItems : CartItemRemoved(k)

Directions == {"for", "against"}
\* which (totem, direction, curve) positions the user holds
HeldPositions == [Totems \X Directions \X Curves -> BOOLEAN]
NoHeldPositions == [p \in Totems \X Directions \X Curves |-> FALSE]

CurveOff ==
    /\ heldPositions = NoHeldPositions
    /\ voteDirection = "null"
    /\ hasForPositionLinear = FALSE
    /\ hasForPositionProgressive = FALSE
    /\ hasAgainstPositionLinear = FALSE
    /\ hasAgainstPositionProgressive = FALSE
    /\ cart = NoCart
    /\ selectedTotemId = Undefined
    /\ curveAvailability = NotRendered

\* the first render
InitCurveAvailability ==
    /\ voteDirection \in VoteDirections
    /\ hasForPositionLinear \in BOOLEAN
    /\ hasForPositionProgressive \in BOOLEAN
    /\ hasAgainstPositionLinear \in BOOLEAN
    /\ hasAgainstPositionProgressive \in BOOLEAN
    /\ cart \in VoteCarts \cup {NoCart}
    /\ selectedTotemId \in Totems \cup {Undefined}
    /\ curveAvailability =
         useCurveAvailability(voteDirection, hasForPositionLinear,
                              hasForPositionProgressive, hasAgainstPositionLinear,
                              hasAgainstPositionProgressive, cart, selectedTotemId)

(***************************************************************************)
(* The cart of the vote panel: the positions read for a totem are handed   *)
(* to the hook with the totem, and the panel adds an item for the          *)
(* requested direction only on a curve the hook reports available.         *)
(***************************************************************************)
\* a VoteCart is created empty
EmptyCart == [isNull |-> FALSE, items |-> << >>]

\* has*Position*: the position read for the selected totem
Holds(held, totem, dir, curve) == totem # Undefined /\ held[<< totem, dir, curve >>]

\* `linear` / `progressive` of the hook's result
ReportedAvailable(availability, curve) ==
    IF curve = CURVE_LINEAR THEN availability.linear ELSE availability.progressive

\* a totem is selected; the positions held on it are passed to the hook
SelectHeldTotem(totem) ==
    SelectTotem(totem,
                Holds(heldPositions, totem, "for", CURVE_LINEAR),
                Holds(heldPositions, totem, "for", CURVE_PROGRESSIVE),
                Holds(heldPositions, totem, "against", CURVE_LINEAR),
                Holds(heldPositions, totem, "against", CURVE_PROGRESSIVE))

\* add(item): the requested direction on the selected totem, on an available curve
AddOnAvailableCurve(curve) ==
    /\ voteDirection \in Directions
    /\ selectedTotemId # Undefined
    /\ ReportedAvailable(curveAvailability, curve)
    /\ CartItemAdded([totemId |-> selectedTotemId, direction |-> voteDirection,
                      curveId |-> curve])

CartSteps ==
    \/ \E vd \in VoteDirections : SetVoteDirection(vd)
    \/ \E totem \in Totems \cup {Undefined} : SelectHeldTotem(totem)
    \/ \E curve \in Curves : AddOnAvailableCurve(curve)
    \/ \E k \in 1..MaxVoteCartItems : CartItemRemoved(k)

\* the panel's first render, with an empty cart
InitGuardedCart ==
    /\ heldPositions \in HeldPositions
    /\ voteDirection \in VoteDirections
    /\ selectedTotemId \in Totems \cup {Undefined}
    /\ hasForPositionLinear = Holds(heldPositions, selectedTotemId, "for", CURVE_LINEAR)
    /\ hasForPositionProgressive =
         Holds(heldPositions, selectedTotemId, "for", CURVE_PROGRESSIVE)
    /\ hasAgainstPositionLinear =
         Holds(heldPositions, selectedTotemId, "against", CURVE_LINEAR)
    /\ hasAgainstPositionProgressive =
         Holds(heldPositions, selectedTotemId, "against", CURVE_PROGRESSIVE)
    /\ cart = EmptyCart
    /\ curveAvailability =
         useCurveAvailability(voteDirection, hasForPositionLinear,
                              hasForPositionProgressive, hasAgainstPositionLinear,
                              hasAgainstPositionProgressive, cart, selectedTotemId)

(***************************************************************************)
(* The functions of batch/utils, each called once on arguments of its      *)
(* domain.                                                                 *)
(***************************************************************************)
NotReturned == "pending"

UtilsOff ==
    /\ fn = "none"
    /\ args = << >>
    /\ upc = "off"
    /\ ret = NotReturned
    /\ multicalls = 0

\* the function returns: its value is in ret
Return(value) ==
    /\ upc = "called"
    /\ upc' = "returned"
    /\ ret' = value
    /\ UNCHANGED << fn, args >>

Returned(name) == fn = name /\ upc = "returned"

\* --- calculateTotalTransactions ---------------------------------------
TransactionCountParams ==
    [hasNewTotems : BOOLEAN, hasNewTriples : BOOLEAN, hasRedeems : BOOLEAN,
     hasExistingTriples : BOOLEAN, isLinearForOnly : BOOLEAN,
     uninitializedProgressiveAgainstCount : 0..MaxUninitialized]

\* `Math.max(1, steps)`, but without the minimum
NoMinimum(steps) == steps

\* `return Math.max(1, steps)`
AtLeastOne(steps) == IF steps < 1 THEN 1 ELSE steps

\* the steps added one `if` after the other
calculateTotalTransactions(params) ==
    LET steps1 == IF params.hasNewTotems THEN 2 ELSE 0
        steps2 == IF params.hasNewTriples
                  THEN (IF params.isLinearForOnly THEN steps1 + 1 ELSE steps1 + 2)
                  ELSE steps1
        steps3 == IF params.hasRedeems THEN steps2 + 1 ELSE steps2
        steps4 == IF params.hasExistingTriples
                  THEN (IF params.uninitializedProgressiveAgainstCount > 0
                        THEN steps3 + 3 ELSE steps3 + 1)
                  ELSE steps3
    IN  AtLeastOne(steps4)

CalculateTotalTransactionsReturns ==
    /\ fn = "calculateTotalTransactions"
    /\ Return(calculateTotalTransactions(args))
    /\ UNCHANGED multicalls

\* --- chunkBatchArrays -------------------------------------------------
SampleTermIds == {1, 2}
SampleValues == {1, 2}
SampleMinValues == {0, 1}

\* four parallel arrays of one length, and a chunk size >= 1
ChunkBatchArgs ==
    UNION { [termIds : [1..n -> SampleTermIds], curveIds : [1..n -> Curves],
             values : [1..n -> SampleValues], minValues : [1..n -> SampleMinValues],
             maxSize : 1..MaxChunkSize] : n \in 0..MaxArrayLen }

ChunkBatchArraysReturns ==
    /\ fn = "chunkBatchArrays"
    /\ Return(chunkBatchArrays(args.termIds, args.curveIds, args.values,
                               args.minValues, args.maxSize))
    /\ UNCHANGED multicalls

\* --- applySlippage ----------------------------------------------------
SlippageAmounts == (0..MaxExpected) \cup {1000}
ToleranceSamples == {0, 1, 100, 200, 5000, 9999, 10000}

ApplySlippageReturns ==
    /\ fn = "applySlippage"
    /\ Return(applySlippage(args.expected, args.toleranceBps))
    /\ UNCHANGED multicalls

\* --- autoAdjustAmount -------------------------------------------------
\* WithinTolerance, but any shortfall is rounded away
AnyShortfall(missing) == TRUE

\* `if (missing <= BATCH_VOTE_CONSTANTS.TOLERANCE_WEI)`
WithinTolerance(missing) == missing <= TOLERANCE_WEI

autoAdjustAmount(amount, minRequiredAmount) ==
    IF amount < minRequiredAmount
    THEN LET missing == minRequiredAmount - amount
         IN  IF WithinTolerance(missing) THEN minRequiredAmount ELSE amount
    ELSE amount

AutoAdjustAmountReturns ==
    /\ fn = "autoAdjustAmount"
    /\ Return(autoAdjustAmount(args.amount, args.minRequiredAmount))
    /\ UNCHANGED multicalls

\* --- checkVaultInitialized, useVaultInitStatus -------------------------
\* getVault(termId, curveId) returns [totalAssets, totalShares]
VaultReads == (0..1) \X (0..MaxShares)

\* useReadContract has no data (disabled, loading, or the read failed)
NoVaultData == << >>

\* termId is undefined
NoTermId == ""

\* TotalSharesOf, but the first component (totalAssets) is taken
TotalAssetsOf(vault) == vault[1]

\* result[1] of the source (0-based): totalShares
TotalSharesOf(vault) == vault[2]

\* try { readContract getVault; return totalShares > 0n } catch { return false }
checkVaultInitialized(read) ==
    IF read.threw THEN FALSE ELSE TotalSharesOf(read.result) > 0

CheckVaultInitializedReturns ==
    /\ fn = "checkVaultInitialized"
    /\ Return(checkVaultInitialized(args))
    /\ UNCHANGED multicalls

\* the hook's result for one render
useVaultInitStatus(params, query) ==
    LET shouldSkip == params.skip \/ params.termId = NoTermId
    IN  IF shouldSkip \/ query.isLoading
        THEN [isInitialized |-> FALSE, isLoading |-> query.isLoading, totalShares |-> 0]
        ELSE LET totalShares ==
                     IF query.data = NoVaultData THEN 0 ELSE TotalSharesOf(query.data)
             IN  [isInitialized |-> totalShares > 0,
                  isLoading |-> FALSE,
                  totalShares |-> totalShares]

UseVaultInitStatusReturns ==
    /\ fn = "useVaultInitStatus"
    /\ Return(useVaultInitStatus(args.params, args.query))
    /\ UNCHANGED multicalls

\* --- NetworkGuard (components/layout) -----------------------------------
\* currentIntuitionChain.id, and some other chain the wallet may be on
expectedChainId == "intuition"
ChainIds == {expectedChainId, "other"}

\* useAccount().address is undefined
NoAddress == ""

\* what the hooks give one render of the component
NetworkGuardProps ==
    [chainId : ChainIds, isConnected : BOOLEAN, address : {NoAddress, "0xa11ce"},
     isCheckingWhitelist : BOOLEAN, isEligible : BOOLEAN]

\* OnExpectedChain, but every chain passes
OnAnyChain(chainId) == TRUE

\* the negation of `chainId !== expectedChainId`
OnExpectedChain(chainId) == chainId = expectedChainId

\* the screen the component returns; "children" is the protected content
NetworkGuard(props) ==
    IF ~OnExpectedChain(props.chainId) THEN "wrongNetwork"
    ELSE IF props.isConnected /\ props.address # NoAddress
         THEN IF props.isCheckingWhitelist THEN "verifying"
              ELSE IF ~props.isEligible THEN "notEligible"
              ELSE "children"
         ELSE "children"

NetworkGuardRenders ==
    /\ fn = "NetworkGuard"
    /\ Return(NetworkGuard(args))
    /\ UNCHANGED multicalls

\* --- deduplicateToTriples ------------------------------------------------
\* ids are Hex strings; two predicates and two totems are enough for every
\* pair of items to agree or differ on either component
PredicateIds == {"0x01", "0x02"}
TotemIds == {"0x0a", "0x0b"}

\* a cart item; `id` is its index in the cart (the object's identity)
ProcessableCartItems ==
    [id : 1..MaxArrayLen, predicateId : PredicateIds, totemId : TotemIds,
     totemName : {"totem"}, curveId : Curves]

DeduplicateArgs ==
    UNION { { list \in [1..n -> ProcessableCartItems] : \A k \in 1..n : list[k].id = k } :
              n \in 0..MaxArrayLen }

\* tripleKey, but the predicate is left out of the key
tripleKeyTotemOnly(item) == item.totemId

\* `${item.predicateId}_${item.totemId}`
tripleKey(item) == item.predicateId \o "_" \o item.totemId

\* A Map is the sequence of its entries, in insertion order.
MapHas(map, key) == \E g \in 1..Len(map) : map[g].key = key

\* MapSet, but the new entry is enumerated first
MapSetFirst(map, key, value) == << [key |-> key] @@ value >> \o map

\* Map.set of a key the map does not hold: the entry goes last
MapSet(map, key, value) == Append(map, [key |-> key] @@ value)

\* uniqueTriples.get(tripleKey)!.items.push(item)
PushItem(map, key, item) ==
    [g \in 1..Len(map) |->
        IF map[g].key = key
        THEN [map[g] EXCEPT !.items = Append(@, item)]
        ELSE map[g]]

\* one turn of the for-of loop
DeduplicateItem(uniqueTriples, item) ==
    IF ~MapHas(uniqueTriples, tripleKey(item))
    THEN MapSet(uniqueTriples, tripleKey(item),
                [predicateId |-> item.predicateId,
                 totemId |-> item.totemId,
                 totemName |-> item.totemName,
                 items |-> << item >>])
    ELSE PushItem(uniqueTriples, tripleKey(item), item)

RECURSIVE DeduplicateFrom(_, _)
DeduplicateFrom(uniqueTriples, rest) ==
    IF rest = << >> THEN uniqueTriples
    ELSE DeduplicateFrom(DeduplicateItem(uniqueTriples, Head(rest)), Tail(rest))

deduplicateToTriples(list) == DeduplicateFrom(<< >>, list)

DeduplicateToTriplesReturns ==
    /\ fn = "deduplicateToTriples"
    /\ Return(deduplicateToTriples(args))
    /\ UNCHANGED multicalls

\* --- previewDepositBatch, previewRedeemBatch, calculateMin*Batch ------
PreviewResults == { << 0, 0 >>, << 51, 49 >>, << 1000, 980 >> }

MulticallEntries ==
    [status : {"success"}, result : PreviewResults]
        \cup {[status |-> "failure", result |-> NoResult]}

MulticallOutcomes(n) ==
    {RejectedMulticall} \cup [rejected : {FALSE}, results : [1..n -> MulticallEntries]]

\* the amounts of a batch and what the multicall for it will give back
PreviewArgs ==
    UNION { [amounts : [1..n -> SampleValues], multicall : MulticallOutcomes(n)] :
              n \in 0..MaxArrayLen }

PreviewDepositBatchReturns ==
    /\ fn = "previewDepositBatch"
    /\ Return(previewDepositBatch(args.amounts, args.multicall))
    /\ multicalls' = multicalls + MulticallsIssued(Len(args.amounts))

PreviewRedeemBatchReturns ==
    /\ fn = "previewRedeemBatch"
    /\ Return(previewRedeemBatch(args.amounts, args.multicall))
    /\ multicalls' = multicalls + MulticallsIssued(Len(args.amounts))

CalculateMinSharesBatchReturns ==
    /\ fn = "calculateMinSharesBatch"
    /\ Return(calculateMinSharesBatch(args.amounts, args.multicall))
    /\ multicalls' = multicalls + MulticallsIssued(Len(args.amounts))

CalculateMinAssetsBatchReturns ==
    /\ fn = "calculateMinAssetsBatch"
    /\ Return(calculateMinAssetsBatch(args.amounts, args.multicall))
    /\ multicalls' = multicalls + MulticallsIssued(Len(args.amounts))

UtilsSteps ==
    \/ CalculateTotalTransactionsReturns
    \/ NetworkGuardRenders
    \/ CheckVaultInitializedReturns
    \/ UseVaultInitStatusReturns
    \/ DeduplicateToTriplesReturns
    \/ PreviewDepositBatchReturns
    \/ PreviewRedeemBatchReturns
    \/ CalculateMinSharesBatchReturns
    \/ CalculateMinAssetsBatchReturns
    \/ AutoAdjustAmountReturns
    \/ ApplySlippageReturns
    \/ ChunkBatchArraysReturns

InitUtilsCall ==
    /\ upc = "called"
    /\ ret = NotReturned
    /\ multicalls = 0
    /\ \/ fn = "calculateTotalTransactions" /\ args \in TransactionCountParams
       \/ fn = "chunkBatchArrays" /\ args \in ChunkBatchArgs
       \/ fn = "autoAdjustAmount"
            /\ args \in [amount : 0..MaxWei, minRequiredAmount : 0..MaxWei]
       \/ fn \in {"previewDepositBatch", "previewRedeemBatch",
                   "calculateMinSharesBatch", "calculateMinAssetsBatch"}
            /\ args \in PreviewArgs
       \/ fn = "deduplicateToTriples" /\ args \in DeduplicateArgs
       \/ fn = "checkVaultInitialized"
            /\ args \in [threw : BOOLEAN, result : VaultReads]
       \/ fn = "useVaultInitStatus"
            /\ args \in [params : [skip : BOOLEAN, termId : {NoTermId, "0x01"}],
                          query : [isLoading : BOOLEAN,
                                   data : VaultReads \cup {NoVaultData}]]
       \/ fn = "NetworkGuard" /\ args \in NetworkGuardProps
       \/ fn = "applySlippage"
            /\ args \in [expected : SlippageAmounts, toleranceBps : ToleranceSamples]

(***************************************************************************)
(* The specification: one call of one of the functions, or the cart panel. *)
(***************************************************************************)
RedeemOff ==
    /\ flow = "none"
    /\ pc = "off"
    /\ items = << >>
    /\ curveId = 0
    /\ chainShares = [p \in Positions |-> 0]
    /\ InitRedeemLocals

TripleOff ==
    /\ depositAmountWei = 0
    /\ walletBalance = 0
    /\ tripleBaseCost = 0
    /\ minDeposit = 0
    /\ deficit = 0
    /\ costsChecked = "pending"

ClaimOff ==
    /\ claimParams = NoClaimParams
    /\ predicateCreated = FALSE
    /\ objectCreated = FALSE
    /\ existingTriple = NoTriple
    /\ claimExistsError = NoClaimError
    /\ createTripleCalls = 0

ThrottleOff == InitThrottleLink

ValidateOff ==
    /\ allCarts = << >>
    /\ currentFounderId = NoFounder
    /\ cartsArray = << >>
    /\ validationProgress = IdleProgress
    /\ isBatchLoading = FALSE
    /\ vpc = "off"
    /\ vi = 1
    /\ allSuccessful = TRUE
    /\ batchCalls = << >>
    /\ inFlight = 0
    /\ onSuccessCalls = 0

InitCreateTriple ==
    /\ items = << >>
    /\ curveId = 0
    /\ chainShares = [p \in Positions |-> 0]
    /\ InitRedeemLocals
    /\ depositAmountWei \in 0..MaxWei
    /\ walletBalance \in 0..(2 * MaxWei)
    /\ tripleBaseCost \in 1..MaxWei
    /\ minDeposit \in 1..MaxWei
    /\ deficit = 0
    /\ costsChecked = "pending"

\* createTriple called on its own
InitCreateTripleCall ==
    /\ flow = "createTriple"
    /\ pc = "checkCosts"
    /\ InitCreateTriple
    /\ claimParams = NoClaimParams
    /\ predicateCreated = FALSE
    /\ objectCreated = FALSE
    /\ existingTriple = NoTriple
    /\ claimExistsError = NoClaimError
    /\ createTripleCalls = 1

\* createClaim called
InitCreateClaim ==
    /\ flow = "createClaim"
    /\ pc = "getPredicate"
    /\ InitCreateTriple
    /\ claimParams \in [predicateIsAtomId : BOOLEAN, objectIsAtomId : BOOLEAN]
    /\ predicateCreated = FALSE
    /\ objectCreated = FALSE
    /\ existingTriple = NoTriple
    /\ claimExistsError = NoClaimError
    /\ createTripleCalls = 0

InitValidate ==
    /\ allCarts \in MultiCarts
    /\ currentFounderId \in Founders
    /\ cartsArray = << >>
    /\ validationProgress = IdleProgress
    /\ isBatchLoading = FALSE
    /\ vpc = "idle"
    /\ vi = 1
    /\ allSuccessful = TRUE
    /\ batchCalls = << >>
    /\ inFlight = 0
    /\ onSuccessCalls = 0

Init ==
    \/ InitExecuteRedeems /\ TripleOff /\ ValidateOff /\ CurveOff /\ UtilsOff /\ ClaimOff /\ ThrottleOff
    \/ InitRedeemBlocking /\ TripleOff /\ ValidateOff /\ CurveOff /\ UtilsOff /\ ClaimOff /\ ThrottleOff
    \/ InitCreateTripleCall /\ ValidateOff /\ CurveOff /\ UtilsOff /\ ThrottleOff
    \/ InitCreateClaim /\ ValidateOff /\ CurveOff /\ UtilsOff /\ ThrottleOff
    \/ RedeemOff /\ TripleOff /\ InitValidate /\ CurveOff /\ UtilsOff /\ ClaimOff /\ ThrottleOff

Next ==
    \/ RedeemSteps /\ UNCHANGED << tripleVars, validateVars, curveVars, utilsVars, claimVars,
                                   throttleVars >>
    \/ CreateTripleSteps /\ UNCHANGED << validateVars, curveVars, utilsVars, claimVars,
                                         throttleVars >>
    \/ CreateClaimSteps /\ UNCHANGED << validateVars, curveVars, utilsVars, throttleVars >>
    \/ ValidateSteps /\ UNCHANGED << redeemVars, tripleVars, curveVars, utilsVars, claimVars,
                                     throttleVars >>

Spec == Init /\ [][Next]_vars

\* the hook alone
InitCurve ==
    /\ RedeemOff /\ TripleOff /\ ValidateOff /\ InitCurveAvailability /\ UtilsOff
    /\ ClaimOff /\ ThrottleOff
    /\ heldPositions = NoHeldPositions

NextCurve ==
    CurveSteps /\ UNCHANGED << redeemVars, tripleVars, validateVars, utilsVars, claimVars,
                              throttleVars, heldPositions >>

\* the hook inside the panel that guards the cart's adds
InitCart ==
    RedeemOff /\ TripleOff /\ ValidateOff /\ InitGuardedCart /\ UtilsOff /\ ClaimOff
        /\ ThrottleOff

NextCart ==
    CartSteps /\ UNCHANGED << redeemVars, tripleVars, validateVars, utilsVars, claimVars,
                             throttleVars, heldPositions >>

SpecCart == InitCart /\ [][NextCart]_vars

SpecCurve == InitCurve /\ [][NextCurve]_vars

\* one call of one function of batch/utils
InitUtils ==
    RedeemOff /\ TripleOff /\ ValidateOff /\ CurveOff /\ InitUtilsCall /\ ClaimOff
        /\ ThrottleOff

NextUtils ==
    UtilsSteps /\ UNCHANGED << redeemVars, tripleVars, validateVars, curveVars, claimVars,
                              throttleVars >>

SpecUtils == InitUtils /\ [][NextUtils]_vars

\* the throttle link alone
otherVars == << redeemVars, tripleVars, validateVars, curveVars, utilsVars, claimVars >>

InitThrottle ==
    RedeemOff /\ TripleOff /\ ValidateOff /\ CurveOff /\ UtilsOff /\ ClaimOff
        /\ InitThrottleLink

NextThrottle ==
    \/ (\E op \in Operations : Subscribe(op)) /\ UNCHANGED otherVars
    \/ (\E op \in Operations : Unsubscribe(op)) /\ UNCHANGED otherVars
    \/ (\E op \in Operations : ForwardNext(op)) /\ UNCHANGED otherVars
    \/ (\E op \in Operations : ForwardComplete(op)) /\ UNCHANGED otherVars
    \/ (\E op \in Operations, is429 \in BOOLEAN : ForwardError(op, is429))
           /\ UNCHANGED otherVars
    \/ (\E op \in Operations : RetryTimerFires(op)) /\ UNCHANGED otherVars
    \/ (\E k \in 1..NumOperations : ProcessTimerFires(k)) /\ UNCHANGED otherVars
    \/ Tick /\ UNCHANGED otherVars

SpecThrottle == InitThrottle /\ [][NextThrottle]_vars

\* the link when no subscriber unsubscribes and every forwarded request settles
NextThrottleLive ==
    \/ (\E op \in Operations : Subscribe(op)) /\ UNCHANGED otherVars
    \/ (\E op \in Operations : ForwardNext(op)) /\ UNCHANGED otherVars
    \/ (\E op \in Operations : ForwardComplete(op)) /\ UNCHANGED otherVars
    \/ (\E op \in Operations, is429 \in BOOLEAN : ForwardError(op, is429))
           /\ UNCHANGED otherVars
    \/ (\E op \in Operations : RetryTimerFires(op)) /\ UNCHANGED otherVars
    \/ (\E k \in 1..NumOperations : ProcessTimerFires(k)) /\ UNCHANGED otherVars
    \/ Tick /\ UNCHANGED otherVars

\* each forwarded request settles, timers fire, time passes
ThrottleFairness ==
    /\ WF_vars(Tick /\ UNCHANGED otherVars)
    /\ WF_vars((\E k \in 1..NumOperations : ProcessTimerFires(k)) /\ UNCHANGED otherVars)
    /\ \A op \in Operations :
         /\ WF_vars(RetryTimerFires(op) /\ UNCHANGED otherVars)
         /\ WF_vars((ForwardComplete(op) \/ \E is429 \in BOOLEAN : ForwardError(op, is429))
                       /\ UNCHANGED otherVars)

SpecThrottleLive == InitThrottle /\ [][NextThrottleLive]_vars /\ ThrottleFairness

(***************************************************************************)
(* Properties                                                              *)
(***************************************************************************)
RedeemFlows == {"executeRedeems", "redeemBlockingForPositions"}

Outstanding == { k \in 1..Len(txs) : ~txs[k].confirmed }

\* transaction k carries the arguments of chunk k
IsChunk(tx, chunk) ==
    /\ tx.functionName = "redeemBatch"
    /\ tx.termIds = chunk.termIds
    /\ tx.curveIds = chunk.curveIds
    /\ tx.values = chunk.values
    /\ tx.minValues = chunk.minValues

\* C1: on-chain steps run one at a time. The transactions of a call are its
\* chunks in order (one transaction at most for createTriple); a transaction
\* is simulated or submitted only when every earlier one has its receipt, so
\* at most one transaction is outstanding at any time.
C1_OneTransactionAtATime ==
    /\ Cardinality(Outstanding) <= 1
    /\ \A k \in 1..Len(txs) : k < Len(txs) => txs[k].confirmed
    /\ pc \in {"simulate", "write"} => Outstanding = {}
    /\ pc = "wait" => Outstanding = {Len(txs)}
    /\ flow \in RedeemFlows =>
         /\ Len(txs) <= Len(chunks)
         /\ \A k \in 1..Len(txs) : IsChunk(txs[k], chunks[k])
         /\ pc \in {"simulate", "write"} => Len(txs) = c - 1
         /\ pc = "wait" => Len(txs) = c
    /\ flow = "createTriple" => Len(txs) <= 1

\* the second chunk is submitted, the first one has its receipt
C1_Witness ==
    /\ flow \in RedeemFlows
    /\ pc = "wait"
    /\ Len(chunks) = 2
    /\ Len(txs) = 2
    /\ txs[1].confirmed
    /\ ~txs[2].confirmed

\* C2: execution halts at the first failing step and rolls nothing back. A
\* redeem call whose simulate, submit or receipt wait failed for chunk c has
\* ended with the error; it has submitted the chunks before c (chunk c too if
\* the receipt wait failed), those before c are confirmed, and no later chunk
\* was submitted. In a run of handleValidateAll only the last executeBatch call
\* can have failed, the run has ended with it, and the carts of the founders
\* whose batch succeeded before it stay cleared.
C2_HaltsAtFirstFailure ==
    /\ (flow \in RedeemFlows /\ thrown \in {"simulate", "write", "wait"}) =>
         /\ pc = "done"
         /\ result = "error"
         /\ c <= Len(chunks)
         /\ Len(txs) = IF thrown = "wait" THEN c ELSE c - 1
         /\ \A k \in 1..(c - 1) : txs[k].confirmed /\ IsChunk(txs[k], chunks[k])
    /\ (flow \in RedeemFlows /\ result = "pending") => thrown = "none"
    /\ \A k \in 1..Len(batchCalls) :
         /\ k < Len(batchCalls) => batchCalls[k].outcome = "ok"
         /\ batchCalls[k].outcome \in {"falsy", "throw"} =>
              /\ vpc = "idle"
              /\ inFlight = 0
              /\ ~allSuccessful
              /\ onSuccessCalls = 0
         /\ batchCalls[k].outcome = "ok" => batchCalls[k].founderId \notin DOMAIN allCarts

\* the wait for the receipt of the first of two chunks failed
C2_Witness ==
    /\ flow \in RedeemFlows
    /\ thrown = "wait"
    /\ c = 1
    /\ Len(chunks) = 2
    /\ Len(txs) = 1

\* the batch of the first of two founders threw, the second was never called
C2_WitnessValidate ==
    /\ vpc = "idle"
    /\ Len(cartsArray) = 2
    /\ Len(batchCalls) = 1
    /\ batchCalls[1].outcome = "throw"

\* C3: a step of the validation flow changes or removes a founder's cart only
\* if executeBatch returned success for that founder's cart in this run; the
\* cart of the founder whose batch failed and of the founders not yet processed
\* are left as they are.
C3_ClearedOnlyAfterSuccess ==
    [][ batchCalls' # batchCalls =>
          \A f \in DOMAIN allCarts :
              \/ f \in DOMAIN allCarts' /\ allCarts'[f] = allCarts[f]
              \/ \E k \in 1..Len(batchCalls') :
                    /\ batchCalls'[k].founderId = f
                    /\ batchCalls'[k].outcome = "ok" ]_vars

\* a run ended with the failure of the second founder: the first cart is
\* cleared, the second one still holds the items the run started with
C3_Witness ==
    /\ vpc = "idle"
    /\ Len(batchCalls) = 2
    /\ batchCalls[1].outcome = "ok"
    /\ batchCalls[2].outcome = "falsy"
    /\ batchCalls[1].founderId \notin DOMAIN allCarts
    /\ batchCalls[2].founderId \in DOMAIN allCarts
    /\ allCarts[batchCalls[2].founderId] = batchCalls[2].cart
    /\ Len(batchCalls[2].cart) > 0

\* C4: founders are processed one after the other. At most one executeBatch
\* call is in flight; the calls of a run are the carts of cartsArray in order,
\* each one made after the one before it settled; while a run is in progress
\* the validate button is disabled.
C4_OneFounderAtATime ==
    /\ inFlight <= 1
    /\ Len(batchCalls) <= Len(cartsArray)
    /\ \A k \in 1..Len(batchCalls) :
         /\ batchCalls[k].founderId = cartsArray[k].founderId
         /\ batchCalls[k].cart = cartsArray[k].cart
         /\ batchCalls[k].outcome = "pending" => k = Len(batchCalls)
    /\ vpc = "awaitBatch" =>
         /\ inFlight = 1
         /\ Len(batchCalls) = vi
         /\ batchCalls[vi].outcome = "pending"
         /\ validationProgress.isValidating \/ isBatchLoading
    /\ vpc \in {"idle", "off"} =>
         /\ inFlight = 0
         /\ \A k \in 1..Len(batchCalls) : batchCalls[k].outcome # "pending"

\* the batch of the second founder is in flight, the first one has settled
C4_Witness ==
    /\ vpc = "awaitBatch"
    /\ Len(batchCalls) = 2
    /\ batchCalls[1].outcome = "ok"
    /\ batchCalls[2].outcome = "pending"
    /\ inFlight = 1

\* the arguments of all redeemBatch transactions, one after the other
RECURSIVE SubmittedArgs(_)
SubmittedArgs(n) ==
    IF n = 0 THEN << >>
    ELSE SubmittedArgs(n - 1)
           \o [m \in 1..Len(txs[n].values) |->
                 [termId |-> txs[n].termIds[m], curveId |-> txs[n].curveIds[m],
                  shares |-> txs[n].values[m]]]

\* the vault and curve of a cart item's position snapshot
SnapshotVault(item) ==
    IF item.currentPosition.direction = "for" THEN item.termId ELSE item.counterTermId

LiveBalance(item) == chainShares[<< SnapshotVault(item), item.currentPosition.curveId >>]

HasLiveShares(item) == item.currentPosition # NoPosition /\ LiveBalance(item) > 0

\* C8: every share amount executeRedeems hands to redeemBatch, and every one it
\* has collected for it, is the balance the contract holds for that (owner,
\* term, curve), whatever the cart item's cached currentPosition.shares is.
C8_RedeemsLiveShares ==
    flow = "executeRedeems" =>
        /\ \A k \in 1..Len(redeemShares) :
             redeemShares[k] = chainShares[<< redeemTermIds[k], redeemCurveIds[k] >>]
        /\ \A k \in 1..Len(SubmittedArgs(Len(txs))) :
             LET a == SubmittedArgs(Len(txs))[k]
             IN  a.shares = chainShares[<< a.termId, a.curveId >>]

\* a redeemBatch was submitted for a position whose cached shares are stale,
\* once below and once above the live balance
C8_Witness ==
    /\ flow = "executeRedeems"
    /\ Len(txs) >= 1
    /\ \E k \in 1..Len(items) :
         /\ HasLiveShares(items[k])
         /\ items[k].currentPosition.shares < LiveBalance(items[k])
    /\ \E k \in 1..Len(items) :
         /\ HasLiveShares(items[k])
         /\ items[k].currentPosition.shares > LiveBalance(items[k])

\* what the items before item n ask to redeem: the positions with live shares
LiveRedeems(n) ==
    LET live == SelectSeq(SubSeq(items, 1, n), HasLiveShares)
    IN  [k \in 1..Len(live) |->
           [termId |-> SnapshotVault(live[k]),
            curveId |-> live[k].currentPosition.curveId,
            shares |-> LiveBalance(live[k])]]

Collected ==
    [k \in 1..Len(redeemTermIds) |->
       [termId |-> redeemTermIds[k], curveId |-> redeemCurveIds[k],
        shares |-> redeemShares[k]]]

IsPrefix(a, b) == Len(a) <= Len(b) /\ SubSeq(b, 1, Len(a)) = a

\* C9: an item whose live balance is zero is skipped and the other items are
\* still redeemed: the positions executeRedeems has collected after looking at
\* the first i-1 items are exactly those of them with a live balance > 0, no
\* amount handed to redeemBatch is zero, a call that ends without error has
\* submitted all of them, and it returns null, having submitted nothing, exactly
\* when no item has a live balance > 0.
C9_ZeroBalanceSkipped ==
    flow = "executeRedeems" =>
        /\ Collected = LiveRedeems(i - 1)
        /\ \A k \in 1..Len(redeemShares) : redeemShares[k] > 0
        /\ \A k \in 1..Len(txs) : \A m \in 1..Len(txs[k].values) : txs[k].values[m] > 0
        /\ IsPrefix(SubmittedArgs(Len(txs)), LiveRedeems(Len(items)))
        /\ result = "ok" => SubmittedArgs(Len(txs)) = LiveRedeems(Len(items))
        /\ result = "null" => txs = << >> /\ LiveRedeems(Len(items)) = << >>
        /\ (pc = "done" /\ result # "error" /\ LiveRedeems(Len(items)) = << >>)
              => result = "null"
        /\ thrown = "getShares" => items[i].currentPosition # NoPosition

\* a call redeemed a position although another item's live balance was zero
C9_Witness ==
    /\ flow = "executeRedeems"
    /\ result = "ok"
    /\ Len(txs) >= 1
    /\ \E k \in 1..Len(items) :
         items[k].currentPosition # NoPosition /\ LiveBalance(items[k]) = 0
    /\ \E k \in 1..Len(items) : HasLiveShares(items[k])

\* the blocking FOR positions among the first n items, on the curve passed in
BlockingFor(n) ==
    LET blocking == SelectSeq(SubSeq(items, 1, n),
                              LAMBDA item : chainShares[<< item.termId, curveId >>] > 0)
    IN  [k \in 1..Len(blocking) |->
           [termId |-> blocking[k].termId,
            curveId |-> curveId,
            shares |-> chainShares[<< blocking[k].termId, curveId >>]]]

\* C10: redeemBlockingForPositions redeems exactly the blocking FOR positions:
\* the positions it has found after the first i-1 items are the FOR vaults
\* (item.termId) of those of these items whose live balance on the curve passed
\* in is > 0, each with that full balance; every redeemBatch it submits is for
\* such a position on that curve, a call that ends without error has submitted
\* them all, and it returns null, having submitted nothing, exactly when there
\* is none.
C10_RedeemsBlockingForOnly ==
    flow = "redeemBlockingForPositions" =>
        /\ [k \in 1..Len(positionsToRedeem) |->
              [termId |-> positionsToRedeem[k].termId, curveId |-> curveId,
               shares |-> positionsToRedeem[k].shares]] = BlockingFor(i - 1)
        /\ IsPrefix(SubmittedArgs(Len(txs)), BlockingFor(Len(items)))
        /\ \A k \in 1..Len(SubmittedArgs(Len(txs))) :
             LET a == SubmittedArgs(Len(txs))[k]
             IN  /\ a.termId \in TermIds
                 /\ a.curveId = curveId
                 /\ a.shares > 0
        /\ result = "ok" => SubmittedArgs(Len(txs)) = BlockingFor(Len(items))
        /\ result = "null" => txs = << >> /\ BlockingFor(Len(items)) = << >>
        /\ (pc = "done" /\ result # "error" /\ BlockingFor(Len(items)) = << >>)
              => result = "null"

\* a call redeemed the blocking position of one triple and left alone a triple
\* without shares on that curve
C10_Witness ==
    /\ flow = "redeemBlockingForPositions"
    /\ result = "ok"
    /\ Len(txs) >= 1
    /\ \E k \in 1..Len(items) : chainShares[<< items[k].termId, curveId >>] = 0
    /\ \E k \in 1..Len(items) : chainShares[<< items[k].termId, curveId >>] > 0

(***************************************************************************)
(* Properties of useCurveAvailability, stated on its parameters            *)
(***************************************************************************)
Requested == voteDirection \in {"for", "against"}

OppositeOfRequested == IF voteDirection = "for" THEN "against" ELSE "for"

HasPosition(dir, curve) ==
    IF dir = "for"
    THEN (IF curve = CURVE_LINEAR THEN hasForPositionLinear ELSE hasForPositionProgressive)
    ELSE (IF curve = CURVE_LINEAR THEN hasAgainstPositionLinear
          ELSE hasAgainstPositionProgressive)

HasCartItem(dir, curve) ==
    /\ ~cart.isNull
    /\ \E k \in 1..Len(cart.items) :
         /\ cart.items[k].totemId = selectedTotemId
         /\ cart.items[k].direction = dir
         /\ cart.items[k].curveId = curve

OppositeOn(curve) ==
    HasPosition(OppositeOfRequested, curve) \/ HasCartItem(OppositeOfRequested, curve)

Available(curve) ==
    IF curve = CURVE_LINEAR THEN curveAvailability.linear ELSE curveAvailability.progressive

\* C5: for a requested direction a curve is reported unavailable if and only if
\* the user holds a position of the opposite direction on that curve or the
\* cart holds an item of the selected totem with the opposite direction on
\* that curve; this holds for each of the two curves.
C5_BlockedIffOpposite ==
    (HookMounted /\ Requested) =>
        \A curve \in Curves : Available(curve) <=> ~OppositeOn(curve)

\* linear is blocked by a cart item alone, progressive by a position alone
C5_Witness ==
    /\ HookMounted
    /\ Requested
    /\ ~curveAvailability.linear
    /\ ~HasPosition(OppositeOfRequested, CURVE_LINEAR)
    /\ HasCartItem(OppositeOfRequested, CURVE_LINEAR)
    /\ ~curveAvailability.progressive
    /\ HasPosition(OppositeOfRequested, CURVE_PROGRESSIVE)
    /\ ~HasCartItem(OppositeOfRequested, CURVE_PROGRESSIVE)

OtherCurve(curve) == IF curve = CURVE_LINEAR THEN CURVE_PROGRESSIVE ELSE CURVE_LINEAR

\* C6: the curves are independent. A curve without an opposite position and
\* without an opposite cart item of the selected totem is available, whatever
\* is held or pending on the other curve and whatever is held or pending in
\* the requested direction; with an oppose-linear position, nothing opposite on
\* progressive and a support request, linear is blocked, progressive available
\* and allBlocked false.
C6_CurvesIndependent ==
    (HookMounted /\ Requested) =>
        /\ \A curve \in Curves : ~OppositeOn(curve) => Available(curve)
        /\ \A curve \in Curves :
             (~Available(curve) /\ ~OppositeOn(OtherCurve(curve)))
                => (Available(OtherCurve(curve)) /\ ~curveAvailability.allBlocked)
        /\ (voteDirection = "for" /\ hasAgainstPositionLinear
              /\ ~OppositeOn(CURVE_PROGRESSIVE))
             => /\ ~curveAvailability.linear
                /\ curveAvailability.progressive
                /\ ~curveAvailability.allBlocked

\* support requested with an oppose-linear position, while the user also holds
\* support positions on both curves and an oppose item of another totem is in
\* the cart on progressive
C6_Witness ==
    /\ HookMounted
    /\ voteDirection = "for"
    /\ hasAgainstPositionLinear
    /\ ~hasAgainstPositionProgressive
    /\ hasForPositionLinear
    /\ hasForPositionProgressive
    /\ ~curveAvailability.linear
    /\ curveAvailability.progressive
    /\ ~curveAvailability.allBlocked
    /\ \E k \in 1..Len(cart.items) :
         /\ cart.items[k].totemId # selectedTotemId
         /\ cart.items[k].direction = "against"
         /\ cart.items[k].curveId = CURVE_PROGRESSIVE

\* C7: allBlocked is true if and only if both curves are blocked for the
\* requested direction; if neither curve has an opposite position or an
\* opposite cart item, both curves are available and allBlocked is false.
C7_AllBlockedIffBoth ==
    HookMounted =>
        /\ curveAvailability.allBlocked
             <=> (~curveAvailability.linear /\ ~curveAvailability.progressive)
        /\ Requested =>
             (curveAvailability.allBlocked
                <=> (OppositeOn(CURVE_LINEAR) /\ OppositeOn(CURVE_PROGRESSIVE)))
        /\ (Requested /\ ~OppositeOn(CURVE_LINEAR) /\ ~OppositeOn(CURVE_PROGRESSIVE))
             => /\ curveAvailability.linear
                /\ curveAvailability.progressive
                /\ ~curveAvailability.allBlocked

\* both curves are blocked and allBlocked is reported
C7_Witness ==
    /\ HookMounted
    /\ Requested
    /\ OppositeOn(CURVE_LINEAR)
    /\ OppositeOn(CURVE_PROGRESSIVE)
    /\ curveAvailability.allBlocked

(***************************************************************************)
(* Properties of the functions of batch/utils                              *)
(***************************************************************************)
Count(b) == IF b THEN 1 ELSE 0

\* the arrays `field` of the first n chunks, one after the other
RECURSIVE ConcatChunks(_, _, _)
ConcatChunks(chs, field, n) ==
    IF n = 0 THEN << >> ELSE ConcatChunks(chs, field, n - 1) \o chs[n][field]

ChunkFields == {"termIds", "curveIds", "values", "minValues"}

\* C11: chunkBatchArrays on four parallel arrays of length n with chunk size
\* k >= 1 returns ceil(n/k) chunks; chunk j holds, for each of the four
\* arrays, the elements j*k .. min((j+1)*k, n)-1 (counted from 0) in their
\* order, so the arrays of a chunk have one length, the chunks put together
\* give back the inputs, only the last chunk may be shorter than k, and an
\* empty input gives no chunk at all.
C11_ChunkBatchArrays ==
    Returned("chunkBatchArrays") =>
        LET n == Len(args.termIds)
            k == args.maxSize
        IN  /\ (Len(ret) - 1) * k < n
            /\ n <= Len(ret) * k
            /\ n = 0 => ret = << >>
            /\ \A j \in 1..Len(ret) : \A f \in ChunkFields :
                  /\ Len(ret[j][f]) = Min(k, n - (j - 1) * k)
                  /\ Len(ret[j][f]) >= 1
                  /\ j < Len(ret) => Len(ret[j][f]) = k
                  /\ \A m \in 1..Len(ret[j][f]) :
                        ret[j][f][m] = args[f][(j - 1) * k + m]
            /\ \A f \in ChunkFields : ConcatChunks(ret, f, Len(ret)) = args[f]

\* three elements in chunks of two: a full chunk and a shorter last one
C11_Witness ==
    /\ Returned("chunkBatchArrays")
    /\ Len(args.termIds) = 3
    /\ args.maxSize = 2
    /\ Len(ret) = 2
    /\ Len(ret[1].values) = 2
    /\ Len(ret[2].values) = 1
    /\ args.values # args.minValues
    /\ args.termIds # args.curveIds

\* C18: calculateTotalTransactions returns max(1, 2*[hasNewTotems]
\* + (1 if isLinearForOnly else 2)*[hasNewTriples] + [hasRedeems]
\* + (3 if uninitializedProgressiveAgainstCount > 0 else 1)*[hasExistingTriples]);
\* new totem + linear-support-only triple gives 3, new totem + mixed-curve
\* triple 4, an existing-triple deposit with an uninitialized
\* progressive-oppose 3, and all flags false 1.
C18_TotalTransactions ==
    Returned("calculateTotalTransactions") =>
        LET sum == 2 * Count(args.hasNewTotems)
                   + (IF args.isLinearForOnly THEN 1 ELSE 2) * Count(args.hasNewTriples)
                   + Count(args.hasRedeems)
                   + (IF args.uninitializedProgressiveAgainstCount > 0 THEN 3 ELSE 1)
                        * Count(args.hasExistingTriples)
            onlyNew == args.hasNewTotems /\ args.hasNewTriples /\ ~args.hasRedeems
                       /\ ~args.hasExistingTriples
            noFlag == ~args.hasNewTotems /\ ~args.hasNewTriples /\ ~args.hasRedeems
                      /\ ~args.hasExistingTriples
        IN  /\ ret = (IF sum > 1 THEN sum ELSE 1)
            /\ ret >= 1
            /\ (onlyNew /\ args.isLinearForOnly) => ret = 3
            /\ (onlyNew /\ ~args.isLinearForOnly) => ret = 4
            /\ (args.hasExistingTriples /\ ~args.hasNewTotems /\ ~args.hasNewTriples
                  /\ ~args.hasRedeems /\ args.uninitializedProgressiveAgainstCount > 0)
                 => ret = 3
            /\ noFlag => ret = 1

\* the call with every flag false returned 1
C18_Witness ==
    /\ Returned("calculateTotalTransactions")
    /\ ~args.hasNewTotems /\ ~args.hasNewTriples /\ ~args.hasRedeems
    /\ ~args.hasExistingTriples
    /\ ret = 1

\* C12: for expected >= 0 and 0 <= toleranceBps <= 10000, applySlippage is
\* expected * (10000 - toleranceBps) / 10000 in exact integer arithmetic,
\* truncated toward zero: the result r is the integer with
\* r * 10000 <= expected * (10000 - toleranceBps) < (r + 1) * 10000. So
\* applySlippage(x, 0) = x, applySlippage(x, 10000) = 0 and
\* applySlippage(1000, 200) = 980.
C12_ApplySlippage ==
    Returned("applySlippage") =>
        LET exact == args.expected * (10000 - args.toleranceBps)
        IN  /\ ret * 10000 <= exact
            /\ exact < (ret + 1) * 10000
            /\ args.toleranceBps = 0 => ret = args.expected
            /\ args.toleranceBps = 10000 => ret = 0
            /\ (args.expected = 1000 /\ args.toleranceBps = 200) => ret = 980

\* a call whose exact quotient is no integer: the result is truncated
C12_Witness ==
    /\ Returned("applySlippage")
    /\ args.toleranceBps = 200
    /\ args.expected > 0
    /\ ret * 10000 < args.expected * (10000 - args.toleranceBps)
    /\ ret = args.expected - 1

\* C13: autoAdjustAmount(amount, minRequired) rounds up to minRequired if and
\* only if amount < minRequired and minRequired - amount <= TOLERANCE_WEI, and
\* returns amount unchanged in every other case. So the result is never below
\* the input, exceeds it by at most TOLERANCE_WEI, and a shortfall larger
\* than the tolerance is left as it is.
C13_AutoAdjustAmount ==
    Returned("autoAdjustAmount") =>
        LET amount == args.amount
            minRequired == args.minRequiredAmount
            adjust == amount < minRequired /\ minRequired - amount <= TOLERANCE_WEI
        IN  /\ adjust => ret = minRequired
            /\ ~adjust => ret = amount
            /\ ret # amount <=> adjust
            /\ ret >= amount
            /\ ret - amount <= TOLERANCE_WEI
            /\ (amount < minRequired /\ minRequired - amount > TOLERANCE_WEI)
                  => (ret = amount /\ ret < minRequired)

\* a shortfall of exactly the tolerance was rounded up
C13_Witness ==
    /\ Returned("autoAdjustAmount")
    /\ args.minRequiredAmount - args.amount = TOLERANCE_WEI
    /\ ret = args.minRequiredAmount
    /\ ret > args.amount

\* the ix-th call of the batch got a result from the contract
Previewed(ix) ==
    ~args.multicall.rejected /\ args.multicall.results[ix].status = "success"

\* C14: previewDepositBatch and previewRedeemBatch return a vector as long
\* as their input and do not throw: an element whose contract call failed is
\* 0 at its own index while every other element keeps its previewed value, a
\* multicall that fails as a whole gives zeros for the whole input, and for
\* an empty input the result is empty and no multicall is issued.
C14_PreviewNeverThrows ==
    (upc = "returned" /\ fn \in {"previewDepositBatch", "previewRedeemBatch"}) =>
        /\ Len(ret) = Len(args.amounts)
        /\ \A ix \in 1..Len(args.amounts) :
             /\ Previewed(ix) => ret[ix] = args.multicall.results[ix].result[1]
             /\ ~Previewed(ix) => ret[ix] = 0
        /\ args.amounts = << >> => (ret = << >> /\ multicalls = 0)
        /\ args.amounts # << >> => multicalls = 1

\* the middle one of three calls failed, the other two kept their previews
C14_Witness ==
    /\ upc = "returned"
    /\ fn = "previewRedeemBatch"
    /\ Len(args.amounts) = 3
    /\ ~args.multicall.rejected
    /\ args.multicall.results[1].result = << 1000, 980 >>
    /\ args.multicall.results[2].status = "failure"
    /\ args.multicall.results[3].result = << 51, 49 >>
    /\ ret = << 1000, 0, 51 >>

\* C15: calculateMinSharesBatch and calculateMinAssetsBatch return, at every
\* index, the preview of that index with the default slippage of 200 bps
\* taken off (preview * 9800 / 10000, truncated); an element whose preview
\* failed gets 0 and leaves the minimum of every other element as it is.
C15_MinIsPreviewLessSlippage ==
    (upc = "returned" /\ fn \in {"calculateMinSharesBatch", "calculateMinAssetsBatch"}) =>
        /\ Len(ret) = Len(args.amounts)
        /\ \A ix \in 1..Len(args.amounts) :
             /\ Previewed(ix) =>
                  LET preview == args.multicall.results[ix].result[1]
                  IN  /\ ret[ix] * 10000 <= preview * 9800
                      /\ preview * 9800 < (ret[ix] + 1) * 10000
             /\ ~Previewed(ix) => ret[ix] = 0

\* the test's case: previews 1000, failure, 51 give 980, 0, 49
C15_Witness ==
    /\ upc = "returned"
    /\ fn = "calculateMinAssetsBatch"
    /\ Len(args.amounts) = 3
    /\ ~args.multicall.rejected
    /\ args.multicall.results[1].result = << 1000, 980 >>
    /\ args.multicall.results[2].status = "failure"
    /\ args.multicall.results[3].result = << 51, 49 >>
    /\ ret = << 980, 0, 49 >>

\* the groups of the returned mapping that hold the cart item at index k
GroupsHolding(k) ==
    { g \in 1..Len(ret) : \E j \in 1..Len(ret[g].items) : ret[g].items[j] = args[k] }

\* how often the cart item at index k occurs in the returned mapping
RECURSIVE Occurrences(_, _)
Occurrences(k, g) ==
    IF g = 0 THEN 0
    ELSE Occurrences(k, g - 1)
         + Cardinality({ j \in 1..Len(ret[g].items) : ret[g].items[j] = args[k] })

RECURSIVE TotalGroupItems(_)
TotalGroupItems(g) ==
    IF g = 0 THEN 0 ELSE TotalGroupItems(g - 1) + Len(ret[g].items)

\* C16: deduplicateToTriples partitions the cart: every item is in exactly
\* one group, exactly once; two items share a group if and only if they
\* have the same predicateId and the same totemId; each group carries the
\* predicateId and totemId of its items; and the lengths of the groups'
\* item lists add up to the number of cart items.
C16_DeduplicatePartitions ==
    Returned("deduplicateToTriples") =>
        /\ \A k \in 1..Len(args) : Occurrences(k, Len(ret)) = 1
        /\ \A k, l \in 1..Len(args) :
             (GroupsHolding(k) = GroupsHolding(l)) <=>
                 (/\ args[k].predicateId = args[l].predicateId
                  /\ args[k].totemId = args[l].totemId)
        /\ \A g \in 1..Len(ret) : \A j \in 1..Len(ret[g].items) :
             /\ ret[g].items[j].predicateId = ret[g].predicateId
             /\ ret[g].items[j].totemId = ret[g].totemId
        /\ TotalGroupItems(Len(ret)) = Len(args)

\* three items: the first and the third are the same triple on two curves,
\* the second has the same totem under another predicate
C16_Witness ==
    /\ Returned("deduplicateToTriples")
    /\ Len(args) = 3
    /\ args[1].predicateId = args[3].predicateId
    /\ args[1].totemId = args[3].totemId
    /\ args[1].curveId # args[3].curveId
    /\ args[2].predicateId # args[1].predicateId
    /\ args[2].totemId = args[1].totemId
    /\ Len(ret) = 2
    /\ Len(ret[1].items) = 2
    /\ Len(ret[2].items) = 1

\* C17: the mapping is ordered by the cart: a group comes before another
\* when its first item comes first in the cart, and inside a group the
\* items stand in cart order, the first of them being the item that opened
\* the group.
C17_DeduplicateKeepsCartOrder ==
    Returned("deduplicateToTriples") =>
        /\ \A g, h \in 1..Len(ret) :
             g < h => ret[g].items[1].id < ret[h].items[1].id
        /\ \A g \in 1..Len(ret) : \A j, l \in 1..Len(ret[g].items) :
             j < l => ret[g].items[j].id < ret[g].items[l].id
        /\ \A g \in 1..Len(ret) : Len(ret[g].items) >= 1

\* the second group's only item stands between the two items of the first
C17_Witness ==
    /\ Returned("deduplicateToTriples")
    /\ Len(args) = 3
    /\ Len(ret) = 2
    /\ ret[1].items = << args[1], args[3] >>
    /\ ret[2].items = << args[2] >>

\* C19: a vault is reported initialized exactly when a getVault read
\* returned totalShares > 0: checkVaultInitialized answers false when the
\* read throws, and useVaultInitStatus answers false while the read is
\* skipped (skip set or no termId), loading, or without data.
C19_InitializedIffSharesRead ==
    /\ Returned("checkVaultInitialized") =>
          (ret <=> (~args.threw /\ args.result[2] > 0))
    /\ Returned("useVaultInitStatus") =>
          (ret.isInitialized <=>
              /\ ~args.params.skip
              /\ args.params.termId # NoTermId
              /\ ~args.query.isLoading
              /\ args.query.data # NoVaultData
              /\ args.query.data[2] > 0)

\* a vault holding assets but no shares is read and reported uninitialized
C19_Witness ==
    /\ Returned("checkVaultInitialized")
    /\ ~args.threw
    /\ args.result = << 1, 0 >>
    /\ ret = FALSE

\* the run of handleValidateAll is over and its last batch failed
RunEndedOnFailure ==
    /\ vpc = "idle"
    /\ batchCalls # << >>
    /\ batchCalls[Len(batchCalls)].outcome \in {"falsy", "throw"}

\* C20: when a founder's batch fails during handleValidateAll, then after
\* the run has ended validationProgress.error holds the failure message:
\* 'failed for founder' naming the founder whose batch returned a falsy
\* result, or the message of the error that was thrown. (The source does not
\* keep it: the closing setValidationProgress at the end of the run replaces
\* the whole progress object by one without an error field.)
C20_ErrorHeldAfterRun ==
    RunEndedOnFailure =>
        validationProgress.error =
            IF batchCalls[Len(batchCalls)].outcome = "falsy"
            THEN << "failedForFounder", batchCalls[Len(batchCalls)].founderId >>
            ELSE << "err.message", NoFounder >>

\* a run that ended on a failed batch, and no error is left to show
C20_Witness ==
    /\ RunEndedOnFailure
    /\ validationProgress.error = NoError
    /\ ~validationProgress.isValidating

\* C21: whenever findTriple found the triple, createClaim has thrown
\* ClaimExistsError carrying the found triple's termId and its subject,
\* predicate and object labels, and createTriple was not called: no
\* createTriples transaction was simulated or submitted. ClaimExistsError is
\* thrown in no other case.
C21_ClaimExistsStopsCreation ==
    /\ existingTriple # NoTriple =>
         /\ flow = "createClaim"
         /\ pc = "done"
         /\ result = "error"
         /\ thrown = "ClaimExistsError"
         /\ claimExistsError.name = "ClaimExistsError"
         /\ claimExistsError.termId = existingTriple.termId
         /\ claimExistsError.subjectLabel = existingTriple.subjectLabel
         /\ claimExistsError.predicateLabel = existingTriple.predicateLabel
         /\ claimExistsError.objectLabel = existingTriple.objectLabel
         /\ createTripleCalls = 0
         /\ txs = << >>
    /\ thrown = "ClaimExistsError" => existingTriple # NoTriple

\* the object atom was created on the way, then the claim was found to exist
C21_Witness ==
    /\ flow = "createClaim"
    /\ objectCreated
    /\ existingTriple \in ExistingTriples
    /\ thrown = "ClaimExistsError"
    /\ claimExistsError.termId = "0xt2"
    /\ claimExistsError.predicateLabel = "has tag"

\* the deposit reaches the minimum and the wallet cannot pay base cost + deposit
CannotPay ==
    /\ flow = "createTriple"
    /\ depositAmountWei >= minDeposit
    /\ walletBalance < tripleBaseCost + depositAmountWei

WalletConnected == args.isConnected /\ args.address # NoAddress

\* C23: for a connected wallet NetworkGuard renders the protected content
\* exactly when the wallet is on the expected chain, the eligibility check
\* has finished and the wallet is eligible; on the wrong chain, during the
\* check and for a wallet that is not eligible it renders a notice instead.
C23_GuardedByChainAndNft ==
    (Returned("NetworkGuard") /\ WalletConnected) =>
        /\ (ret = "children") <=>
               /\ args.chainId = "intuition"
               /\ ~args.isCheckingWhitelist
               /\ args.isEligible
        /\ args.chainId # "intuition" => ret = "wrongNetwork"
        /\ (args.chainId = "intuition" /\ args.isCheckingWhitelist) => ret = "verifying"
        /\ (args.chainId = "intuition" /\ ~args.isCheckingWhitelist /\ ~args.isEligible)
              => ret = "notEligible"

\* an eligible wallet on another chain does not get the content
C23_Witness ==
    /\ Returned("NetworkGuard")
    /\ WalletConnected
    /\ args.chainId = "other"
    /\ args.isEligible
    /\ ~args.isCheckingWhitelist
    /\ ret = "wrongNetwork"

\* C25: the link never has more than maxConcurrent requests in flight:
\* after any sequence of subscriptions, dispatches, completions, errors,
\* retries and timers, 0 <= activeRequests <= maxConcurrent, and
\* activeRequests is the number of forwarded requests that have not yet
\* completed or errored.
C25_ActiveWithinBudget ==
    /\ 0 <= activeRequests
    /\ activeRequests <= maxConcurrent
    /\ activeRequests = Cardinality(forwarding)

\* a request is in flight after another one failed, was retried and completed
C25_Witness ==
    /\ activeRequests = 1
    /\ Cardinality(forwarding) = 1
    /\ \E op \in Operations :
         /\ forwards[op] = 2
         /\ delivered[op] = "complete"
    /\ \E op \in Operations : delivered[op] = "other error"

\* the operation is in the queue
Queued(op) == \E k \in 1..Len(queue) : queue[k] = op

\* C26: retries are bounded and back off exponentially. A request is
\* forwarded at most maxRetries + 1 times; a rate-limit or network error at
\* retryCount < maxRetries starts a timer of retryDelay * 2^retryCount (the
\* count before the increment) and delivers nothing, and when the timer
\* fires the request is at the front of the queue or forwarded at once; a
\* rate-limit error is delivered only at retryCount = maxRetries, any other
\* error at once, and a request whose observer got complete or an error is
\* neither queued, nor waiting for a retry, nor forwarded again.
C26_BoundedExponentialRetry ==
    /\ [](\A op \in Operations :
            /\ forwards[op] <= maxRetries + 1
            /\ retryCount[op] <= maxRetries
            /\ forwards[op] <= retryCount[op] + 1
            /\ retryCount[op] >= 1 => backoff[op] = retryDelay * Pow2(retryCount[op] - 1)
            /\ delivered[op] = "rate limit error" => retryCount[op] = maxRetries
            /\ delivered[op] # "none" =>
                 /\ ~Queued(op)
                 /\ retryTimers[op] = NoTimer
                 /\ op \notin forwarding)
    /\ [][\A op \in Operations :
            /\ retryCount'[op] # retryCount[op] =>
                 /\ op \in forwarding
                 /\ retryCount[op] < maxRetries
                 /\ retryCount'[op] = retryCount[op] + 1
                 /\ retryTimers'[op] = retryDelay * Pow2(retryCount[op])
                 /\ delivered'[op] = "none"
            /\ (op \in forwarding /\ op \notin forwarding' /\ op \notin unsubscribed
                  /\ delivered'[op] = "none") =>
                 retryCount'[op] = retryCount[op] + 1
            /\ (retryTimers[op] = 0 /\ retryTimers'[op] = NoTimer) =>
                 \/ queue' # << >> /\ Head(queue') = op
                 \/ op \in forwarding' /\ forwards'[op] = forwards[op] + 1
            /\ delivered[op] # "none" =>
                 /\ delivered'[op] = delivered[op]
                 /\ forwards'[op] = forwards[op]]_vars

\* a request was forwarded maxRetries + 1 times, the last retry came after
\* retryDelay * 2^(maxRetries - 1), and its observer got the rate-limit error
C26_Witness ==
    \E op \in Operations :
        /\ forwards[op] = maxRetries + 1
        /\ retryCount[op] = maxRetries
        /\ backoff[op] = retryDelay * Pow2(maxRetries - 1)
        /\ delivered[op] = "rate limit error"

\* C24: the link resolves or fails every call. When no subscriber
\* unsubscribes, every forwarded request settles, timers fire and time
\* passes, every operation handed to the link is eventually forwarded, and
\* its observer eventually receives complete or an error; after that it is
\* no longer in the queue.
C24_EveryCallSettles ==
    \A op \in Operations :
        /\ (op \in subscribed) ~> (forwards[op] >= 1)
        /\ (op \in subscribed) ~> (delivered[op] # "none" /\ ~Queued(op))

\* every operation has settled, one of them after all its retries
C24_Witness ==
    /\ \A op \in Operations : delivered[op] # "none"
    /\ \E op \in Operations : delivered[op] = "complete" /\ forwards[op] = maxRetries + 1
    /\ \E op \in Operations : delivered[op] = "rate limit error"

\* C30 (as claimed): the link uses its concurrency budget. Whenever the
\* queue is non-empty, fewer than maxConcurrent requests are in flight and
\* minDelay has passed since the last dispatch, the next queued request does
\* not wait for an in-flight request to finish: its dispatch is due, that is,
\* a processNext timer is pending. (In the source processNext returns after
\* forwarding one request with isProcessing still set, so processQueue does
\* nothing until a forwarded request settles: one request is in flight at a
\* time.)
C30_UsesConcurrencyBudget ==
    (/\ queue # << >>
     /\ activeRequests < maxConcurrent
     /\ sinceLastRequest >= minDelay) => processTimers # << >>

\* two requests wait behind the one in flight, although the budget is three
\* and minDelay has passed; nothing is scheduled to dispatch them
C30_Witness ==
    /\ Len(queue) = 2
    /\ activeRequests = 1
    /\ maxConcurrent = 3
    /\ sinceLastRequest >= minDelay
    /\ processTimers = << >>
    /\ isProcessing

\* a cart whose only work is to redeem positions
RedeemOnlyCart ==
    [hasNewTotems |-> FALSE, hasNewTriples |-> FALSE, hasRedeems |-> TRUE,
     hasExistingTriples |-> FALSE, isLinearForOnly |-> FALSE,
     uninitializedProgressiveAgainstCount |-> 0]

\* the distinct positions executeRedeems collected for redeemBatch
CollectedPositions ==
    { << redeemTermIds[k], redeemCurveIds[k] >> : k \in 1..Len(redeemTermIds) }

\* C27 (as claimed): redeems cost exactly one transaction. A call of
\* executeRedeems that found at least one position with positive live shares
\* and returned its result has submitted exactly one redeemBatch transaction,
\* whatever the number of positions, which is the single step
\* calculateTotalTransactions counts for hasRedeems. (In the source the
\* arrays are cut into chunks of MAX_BATCH_SIZE and every chunk is submitted
\* as a transaction of its own.)
C27_RedeemsCostOneTransaction ==
    (flow = "executeRedeems" /\ pc = "done" /\ result = "ok") =>
        /\ Len(txs) = 1
        /\ Len(txs) = calculateTotalTransactions(RedeemOnlyCart)

\* executeRedeems returned after redeeming more distinct positions than one
\* redeemBatch call takes: it submitted two transactions, the step count is 1
C27_Witness ==
    /\ flow = "executeRedeems"
    /\ pc = "done"
    /\ result = "ok"
    /\ Cardinality(CollectedPositions) = MAX_BATCH_SIZE + 1
    /\ Len(txs) = 2
    /\ \A k \in 1..Len(txs) : txs[k].functionName = "redeemBatch" /\ txs[k].confirmed
    /\ calculateTotalTransactions(RedeemOnlyCart) = 1

\* the shares asked for a position over a sequence of redeemBatch arguments
RECURSIVE SharesRequested(_, _)
SharesRequested(submitted, position) ==
    IF submitted = << >> THEN 0
    ELSE (IF << Head(submitted).termId, Head(submitted).curveId >> = position
          THEN Head(submitted).shares ELSE 0)
         + SharesRequested(Tail(submitted), position)

\* all shares of a sequence of redeemBatch arguments
RECURSIVE SharesSubmitted(_)
SharesSubmitted(submitted) ==
    IF submitted = << >> THEN 0
    ELSE Head(submitted).shares + SharesSubmitted(Tail(submitted))

\* C29 (as claimed): redeem arguments are duplicate-free. In one run of
\* executeRedeems or redeemBlockingForPositions each position (termId,
\* curveId) appears at most once in the arguments of the redeemBatch
\* transactions, also when several cart items refer to the same triple or
\* carry the same currentPosition; the shares asked for a position never
\* exceed its live balance; and the totalRedeemed that executeRedeems returns
\* is the sum of the shares it submitted. (In the source both loops push one
\* entry per cart item, without looking at the entries already collected.)
C29_EachPositionRedeemedOnce ==
    flow \in RedeemFlows =>
        LET submitted == SubmittedArgs(Len(txs))
        IN  /\ \A k, m \in 1..Len(submitted) :
                 k # m => << submitted[k].termId, submitted[k].curveId >>
                            # << submitted[m].termId, submitted[m].curveId >>
            /\ \A position \in Positions :
                 SharesRequested(submitted, position) <= chainShares[position]
            /\ (flow = "executeRedeems" /\ pc = "done" /\ result = "ok") =>
                 totalRedeemed = SharesSubmitted(submitted)

\* two cart items carry the same currentPosition: executeRedeems returned
\* after asking redeemBatch for that position twice, twice its live balance
C29_Witness ==
    /\ flow = "executeRedeems"
    /\ pc = "done"
    /\ result = "ok"
    /\ Len(items) = 2
    /\ items[1] = items[2]
    /\ LET submitted == SubmittedArgs(Len(txs))
       IN  /\ Len(submitted) = 2
           /\ submitted[1] = submitted[2]
           /\ SharesRequested(submitted, << submitted[1].termId, submitted[1].curveId >>)
                = 2 * chainShares[<< submitted[1].termId, submitted[1].curveId >>]
           /\ totalRedeemed = SharesSubmitted(submitted)

OppositeDirection(dir) == IF dir = "for" THEN "against" ELSE "for"

\* C28: guarded adds keep the cart free of conflicts. When every item is
\* added only on a curve that useCurveAvailability reports available for the
\* item's direction, given the positions the user holds and the cart at the
\* time of the add, then after any adds and removes the cart never holds a
\* support item and an oppose item of the same totem on the same curve, and
\* never holds an item whose direction is opposite to a position the user
\* holds for that totem on that curve.
C28_GuardedCartHasNoConflict ==
    /\ \A k, m \in 1..Len(cart.items) :
         (/\ cart.items[k].totemId = cart.items[m].totemId
          /\ cart.items[k].curveId = cart.items[m].curveId)
            => cart.items[k].direction = cart.items[m].direction
    /\ \A k \in 1..Len(cart.items) :
         ~heldPositions[<< cart.items[k].totemId,
                           OppositeDirection(cart.items[k].direction),
                           cart.items[k].curveId >>]

\* the cart holds support-linear and oppose-progressive of the selected
\* totem; the user holds an oppose-progressive position on it; oppose is
\* requested and the hook reports linear blocked (by the cart item) and
\* progressive available
C28_Witness ==
    /\ HookMounted
    /\ selectedTotemId # Undefined
    /\ voteDirection = "against"
    /\ Len(cart.items) = 2
    /\ cart.items[1] = [totemId |-> selectedTotemId, direction |-> "for",
                        curveId |-> CURVE_LINEAR]
    /\ cart.items[2] = [totemId |-> selectedTotemId, direction |-> "against",
                        curveId |-> CURVE_PROGRESSIVE]
    /\ heldPositions[<< selectedTotemId, "against", CURVE_PROGRESSIVE >>]
    /\ ~curveAvailability.linear
    /\ curveAvailability.progressive

=============================================================================
